---- MODULE Spec2Model ----
(***************************************************************************)
(* A model of the browser agent of bk-ru/ai_agent: the agent loop          *)
(* (BrowserAgent.run), the history manager (_apply_history_window and      *)
(* _summarize_history), the destructive-action gate                        *)
(* (_is_potentially_destructive) and tool dispatch (_dispatch_tool) over   *)
(* the tool executor (ToolExecutor).                                       *)
(*                                                                         *)
(* Strings the code inspects character by character (labels, keywords)     *)
(* are sequences of one-character strings.  A Cyrillic letter is written   *)
(* "c:<name>" (lower case) or "C:<name>" (upper case), since the module    *)
(* is ASCII: "c:o" is the Cyrillic small letter o.                         *)
(***************************************************************************)
EXTENDS Integers, Sequences, FiniteSets, TLC

(***************************************************************************)
(* Bounds of the model.                                                    *)
(***************************************************************************)
\* The largest --max-iterations explored (runs take 0..MaxIterations).
MaxIterations == 4
\* The largest --history-window explored (1..MaxHistoryWindow).
MaxHistoryWindow == 4
\* The most pages (tabs) the browser context holds.
MaxPages == 2
\* The largest --max-iterations of the runs that explore the gate.
MaxClickIterations == 2
\* The longest of the small pages the distiller is explored over.
MaxNodes == 3

(***************************************************************************)
(* Strings.                                                                *)
(***************************************************************************)
UpperChars ==
    << "A", "B", "C", "D", "E", "F", "G", "H", "I", "J", "K", "L", "M", "N", "O", "P", "Q", "R", "S", "T", "U", "V", "W", "X", "Y", "Z", "C:a", "C:b", "C:v", "C:g", "C:d", "C:e", "C:zh", "C:z", "C:i", "C:j", "C:k", "C:l", "C:m", "C:n", "C:o", "C:p", "C:r", "C:s", "C:t", "C:u", "C:f", "C:h", "C:c", "C:ch", "C:sh", "C:sch", "C:hard", "C:y", "C:soft", "C:eh", "C:yu", "C:ya" >>
LowerChars ==
    << "a", "b", "c", "d", "e", "f", "g", "h", "i", "j", "k", "l", "m", "n", "o", "p", "q", "r", "s", "t", "u", "v", "w", "x", "y", "z", "c:a", "c:b", "c:v", "c:g", "c:d", "c:e", "c:zh", "c:z", "c:i", "c:j", "c:k", "c:l", "c:m", "c:n", "c:o", "c:p", "c:r", "c:s", "c:t", "c:u", "c:f", "c:h", "c:c", "c:ch", "c:sh", "c:sch", "c:hard", "c:y", "c:soft", "c:eh", "c:yu", "c:ya" >>

\* The lower-case letter of each upper-case letter.
LowerOf ==
    [c \in {UpperChars[i] : i \in 1..Len(UpperChars)} |->
        LowerChars[CHOOSE i \in 1..Len(UpperChars) : UpperChars[i] = c]]

\* str.lower() on one character.
LowerChar(c) == IF c \in DOMAIN LowerOf THEN LowerOf[c] ELSE c

\* str.lower()
Lower(s) == [i \in 1..Len(s) |-> LowerChar(s[i])]

\* Python's `sub in s` on strings.
Contains(s, sub) ==
    \E i \in 0..(Len(s) - Len(sub)) : SubSeq(s, i + 1, i + Len(sub)) = sub

\* " ".join(parts)
RECURSIVE Join(_)
Join(parts) ==
    IF Len(parts) = 0 THEN <<>>
    ELSE IF Len(parts) = 1 THEN parts[1]
    ELSE parts[1] \o <<" ">> \o Join(Tail(parts))

\* The index range of a sequence, and the elements of a sequence.
Range(s) == {s[i] : i \in 1..Len(s)}

\* str.strip(): leading and trailing blanks removed.
RECURSIVE LStrip(_)
LStrip(s) == IF Len(s) > 0 /\ Head(s) = " " THEN LStrip(Tail(s)) ELSE s

RECURSIVE RStrip(_)
RStrip(s) ==
    IF Len(s) > 0 /\ s[Len(s)] = " " THEN RStrip(SubSeq(s, 1, Len(s) - 1)) ELSE s

Strip(s) == RStrip(LStrip(s))

(***************************************************************************)
(* Element labels the pages of the model show, and the operator's answers. *)
(***************************************************************************)
S_empty == <<>>
S_Checkout == <<"C", "h", "e", "c", "k", "o", "u", "t">>   \* "Checkout"
S_OPLATIT == <<"C:o", "C:p", "C:l", "C:a", "C:t", "C:i", "C:t", "C:soft">>   \* the Russian for "pay", in capitals
S_next_page == <<"N", "e", "x", "t", " ", "p", "a", "g", "e">>   \* "Next page"
S_Clear == <<"C", "l", "e", "a", "r">>
S_all == <<"a", "l", "l">>
S_Repost == <<"R", "e", "p", "o", "s", "t">>
S_orders_href == <<"/", "o", "r", "d", "e", "r", "s">>
S_Submit_query == <<"S", "u", "b", "m", "i", "t", " ", "q", "u", "e", "r", "y">>
A_y == <<"y">>
A_Yes == <<" ", "Y", "e", "s", " ">>   \* " Yes "
A_Da == <<"C:d", "c:a">>   \* the Russian "Da" (yes)
A_n == <<"n">>
A_empty == <<>>
A_yep == <<"y", "e", "p">>

Labels == {S_empty, S_Checkout, S_OPLATIT, S_next_page, S_Clear, S_all, S_Repost}

Hrefs == {S_empty, S_orders_href}

Answers == {A_y, A_Yes, A_Da, A_n, A_empty, A_yep}

(***************************************************************************)
(* core/models.py: DistilledElement.  An absent (None) field and an empty  *)
(* string are both <<>>: the code reads every field as `field or ""`.      *)
(***************************************************************************)
DistilledElement(id, text, aria_label, placeholder, href) ==
    [id |-> id, text |-> text, aria_label |-> aria_label,
     placeholder |-> placeholder, href |-> href]

\* A node of the page matched by the distiller's selector, in document
\* order: what the scan reads from it, whether it is visible and whether it
\* is inside a [role=dialog] / [aria-modal="true"] element.
Node(text, aria_label, placeholder, href, visible, in_dialog) ==
    [text |-> text, aria_label |-> aria_label, placeholder |-> placeholder,
     href |-> href, visible |-> visible, in_dialog |-> in_dialog]

\* The pages of the agent-loop runs.
ShopPage ==
    << Node(S_next_page, S_empty, S_empty, S_empty, TRUE, FALSE),
       Node(S_Checkout, S_empty, S_empty, S_empty, TRUE, FALSE) >>

PayPage ==
    << Node(S_empty, S_OPLATIT, S_empty, S_empty, TRUE, FALSE),
       Node(S_next_page, S_empty, S_empty, S_orders_href, TRUE, FALSE) >>

\* A page showing a modal dialog with one button.
ModalPage ==
    << Node(S_next_page, S_empty, S_empty, S_empty, TRUE, FALSE),
       Node(S_Checkout, S_empty, S_empty, S_empty, TRUE, TRUE) >>

\* A page with an icon button (no text) and a hidden button.
IconPage ==
    << Node(S_empty, S_all, S_empty, S_empty, TRUE, FALSE),
       Node(S_Repost, S_empty, S_empty, S_empty, FALSE, FALSE) >>

Pages == {ShopPage, PayPage, ModalPage, IconPage}

\* `if (distilled.length >= 200) break`
ElementCap == 200

\* The script of analyze_page: `allNodes`, as indices into the page's nodes.
\* The nodes inside dialogs come first and then every node of the page, the
\* ones inside dialogs included.
AllNodes(dom) ==
    LET pageNodes == [i \in 1..Len(dom) |-> i]
        dialogNodes == SelectSeq(pageNodes, LAMBDA i : dom[i].in_dialog)
    IN dialogNodes \o pageNodes

\* `isVisible(el)` of the script
isVisibleAlways(node) == TRUE

isVisible(node) == node.visible

\* The scan loop over allNodes: what it pushed to `distilled`, for each
\* entry the node and the sequence number `agent` of the marker
\* `${stamp}-${agent}` written on it.  The loop skips (`continue`) the
\* entries that are not visible, numbers the others with `id++` from 0 and
\* stops (`break`) once ElementCap entries are pushed.
Scan(dom, allNodes) ==
    LET seen == SelectSeq(allNodes, LAMBDA n : isVisible(dom[n]))
        pushed == IF Len(seen) >= ElementCap THEN ElementCap ELSE Len(seen)
    IN [k \in 1..pushed |-> [agent |-> k - 1, node |-> seen[k]]]

\* One distillation of a page: the elements (`enumerate(raw_elements)`
\* gives the ids), `stamped`, what the scan pushed, and `live`, the ids whose
\* marker is on the page when the scan ends.
\* setAttribute overwrites: a node stamped twice carries its last marker.
Distill(dom) ==
    LET d == Scan(dom, AllNodes(dom)) IN
    [elements |-> [k \in 1..Len(d) |->
                      DistilledElement(k - 1, Strip(dom[d[k].node].text),
                                       dom[d[k].node].aria_label,
                                       dom[d[k].node].placeholder,
                                       dom[d[k].node].href)],
     stamped |-> d,
     live |-> {k - 1 : k \in {j \in 1..Len(d) :
                                \A m \in (j + 1)..Len(d) : d[m].node # d[j].node}}]

Distillations == {Distill(dom) : dom \in Pages}

\* The pages of the runs that explore the gate inside the loop.
ClickPages == {ShopPage, PayPage}

\* The responses of those runs: one tool invocation, alone or after a text.
ClickShapes == {<<"tool_use">>, <<"text", "tool_use">>}

(***************************************************************************)
(* Tool parameters (the `input` map of a tool_use block).  A value is      *)
(* present and an integer, present and not coercible by int(), or missing. *)
(* `text` is a string or missing.  `required` tells whether the other      *)
(* required keys of the tool (url, query, selector) are present and        *)
(* `coercible` whether its optional numeric values pass int()/float().     *)
(***************************************************************************)
IntVal(n) == [kind |-> "int", n |-> n]
BadVal == [kind |-> "bad", n |-> 0]
MissingVal == [kind |-> "missing", n |-> 0]

StrVal(s) == [kind |-> "str", s |-> s]
MissingStr == [kind |-> "missing", s |-> <<>>]

Params(element_id, text, index, required, coercible, embed_b64) ==
    [element_id |-> element_id, text |-> text, index |-> index, required |-> required,
     coercible |-> coercible, embed_b64 |-> embed_b64]

(***************************************************************************)
(* Result envelopes.  `keys` are the keys of the dict; a key that is       *)
(* absent reads as FALSE / "" / "None".  `suggestion` tells whether the    *)
(* suggestion is a non-empty string, `via` is the resolution path the      *)
(* message reports and `b64` whether data holds a base64 image.  `steps`   *)
(* are the resolution steps click_element went through before returning:   *)
(* "marker" (a click on the element's own marker), "redistill" (the        *)
(* analyze_page call), "refreshed" (a click on the marker of a fresh       *)
(* element with the same text) and "text" (a click by visible text); for   *)
(* an exception that escaped a call, the step that raised it, where the    *)
(* model tells it apart ("dom_agent": the call of the DOM sub-agent).      *)
(* `clicks` and `distills` count the driver clicks attempted and the       *)
(* distillations run by click_element before it returned.                  *)
(* `clicked` holds the distilled element whose marker a successful click   *)
(* of click_element went to (none for a click by visible text, which goes  *)
(* to whichever node of the page shows the text first).                    *)
(* `typed` holds the distilled element whose marker a successful fill of   *)
(* type_text went to.                                                      *)
(* `url` is the page whose url a click reports in data (a page is known by *)
(* its index in the context's page list; 0 when data has no url).          *)
(***************************************************************************)
ResultKeys ==
    {"success", "action", "message", "error_type", "error", "suggestion", "data"}

Envelope(keys, success, action, error_type, suggestion, via, b64) ==
    [keys |-> keys, success |-> success, action |-> action,
     error_type |-> error_type, suggestion |-> suggestion, via |-> via,
     b64 |-> b64, steps |-> {}, clicks |-> 0, distills |-> 0, url |-> 0,
     clicked |-> <<>>, typed |-> <<>>]

\* ToolExecutor._result
_result(success, action, error_type, suggestion, via, b64) ==
    Envelope(ResultKeys, success, action, error_type, suggestion, via, b64)

Ok(action, via) == _result(TRUE, action, "None", FALSE, via, FALSE)

Fail(action, error_type) == _result(FALSE, action, error_type, TRUE, "", FALSE)

NoEnvelope == Envelope({}, FALSE, "", "None", FALSE, "", FALSE)

\* What a call returns: an envelope and the executor's state after it, or
\* an exception that escapes the call.
Return(env, ex) == [raised |-> FALSE, env |-> env, ex |-> ex]

Raise(ex) == [raised |-> TRUE, env |-> NoEnvelope, ex |-> ex]

\* An exception that escapes the call, raised by `step`.
RaiseIn(ex, step) ==
    [raised |-> TRUE, env |-> [NoEnvelope EXCEPT !.steps = {step}], ex |-> ex]

(***************************************************************************)
(* The tool executor.  Its state `ex` is the last distilled set, the       *)
(* active page (an index into the context's page list) and the number of   *)
(* pages of the context; `live` are the ids of the last distilled set      *)
(* whose marker is on the active page (the locator of the marker finds a   *)
(* node); `stamped` tells, for each element of the last distilled set, the *)
(* node it was captured from and the sequence number of the marker written *)
(* on it (empty for a set no scan of the model produced); `site` are the   *)
(* pages the browser can show in this run; `shown` is the list of elements *)
(* of the last result that carried one to the model (data.elements).  The  *)
(* browser driver is the environment: each                                 *)
(* operator below gives the set of results the method can return, one for  *)
(* every outcome of its driver calls.                                      *)
(***************************************************************************)
\* ToolExecutor._sync_active_page
\* The executor on page p of the context: another page has no marker of
\* the last distilled set.
OnPage(ex, p) ==
    IF p = ex.page THEN ex ELSE [ex EXCEPT !.page = p, !.live = {}]

\* The page re-rendered: the markers are gone.
Rerendered(ex) == [ex EXCEPT !.live = {}]

\* ToolExecutor._sync_active_page
_sync_active_page_skipped(ex) == ex

_sync_active_page(ex) ==
    IF ex.context /\ ex.npages > 0 THEN OnPage(ex, ex.npages) ELSE ex

\* data={"url": self.page.url, ...} of the successful clicks
WithUrl(env, ex) == [env EXCEPT !.url = ex.page]

\* ToolExecutor._get_element: the elements of the last distilled set with
\* that id, in order (the method returns the first, or None).
_get_element(ex, element_id) ==
    SelectSeq(ex.last_elements, LAMBDA el : el.id = element_id)

\* A driver click that succeeded may have re-rendered the page or opened a
\* new tab.
AfterClick(ex) ==
    {ex, Rerendered(ex)}
    \cup (IF ex.npages < MaxPages
          THEN {[ex EXCEPT !.npages = ex.npages + 1]} ELSE {})

\* data={..., "elements": condensed, ...}: the results rs, their successes
\* carrying the distilled set to the model.
Listed(rs) ==
    {IF ~r.raised /\ r.env.success
     THEN [r EXCEPT !.ex.shown = r.ex.last_elements] ELSE r : r \in rs}

\* ToolExecutor.analyze_page: the page shown is any page of the site;
\* page.title() of the success envelope is outside the try block.
analyze_page_merging(ex) ==
    LET synced == _sync_active_page(ex) IN
    {Return(Fail("analyze_page", "AnalysisError"), synced)}
    \cup UNION { LET d == Distill(dom)
                     done == [synced EXCEPT !.last_elements = @ \o d.elements,
                                            !.stamped = @ \o d.stamped,
                                            !.live = d.live] IN
                 {Return(Ok("analyze_page", ""), done), Raise(done)}
                 : dom \in ex.site }

analyze_page(ex) ==
    LET synced == _sync_active_page(ex) IN
    {Return(Fail("analyze_page", "AnalysisError"), synced)}
    \cup UNION { LET d == Distill(dom)
                     done == [synced EXCEPT !.last_elements = d.elements,
                                            !.stamped = d.stamped,
                                            !.live = d.live] IN
                 {Return(Ok("analyze_page", ""), done), Raise(done)}
                 : dom \in ex.site }

\* The results rs, having gone through the resolution step `step`.
Stepped(rs, step) ==
    {[r EXCEPT !.env.steps = @ \cup {step},
               !.env.clicks = IF step = "redistill" THEN @ ELSE @ + 1,
               !.env.distills = IF step = "redistill" THEN @ + 1 ELSE @] : r \in rs}

\* The results rs of a click on the marker of element el: the successes
\* reported as `via` went to that element.
Clicking(rs, el, via) ==
    {IF ~r.raised /\ r.env.success /\ r.env.via = via
     THEN [r EXCEPT !.env.clicked = <<el>>] ELSE r : r \in rs}

\* click_element._ok
ClickOk(exs, via) ==
    {LET synced == _sync_active_page(e) IN
     Return(WithUrl(Ok("click_element", via), synced), synced) : e \in exs}

\* The `except TimeoutError` handler of click_element.
ClickTimeoutHandlerRetrying(ex, text) ==
    IF text # <<>>
    THEN Stepped(Stepped(ClickOk(AfterClick(ex), "text fallback after timeout")
                         \cup {Return(Fail("click_element", "Timeout"), ex)},
                         "text"), "text")
    ELSE {Return(Fail("click_element", "Timeout"), ex)}

ClickTimeoutHandler(ex, text) ==
    IF text # <<>>
    THEN Stepped(ClickOk(AfterClick(ex), "text fallback after timeout")
                 \cup {Return(Fail("click_element", "Timeout"), ex)}, "text")
    ELSE {Return(Fail("click_element", "Timeout"), ex)}

\* The `except Exception` handler of click_element.
ClickErrorHandlerUntyped(ex) ==
    {Return(_result(FALSE, "click_element", "Exception", FALSE, "", FALSE), ex)}

ClickErrorHandler(ex) == {Return(Fail("click_element", "ClickError"), ex)}

\* One driver click on a marker inside the try block of click_element: with
\* the marker on the page it succeeds, times out or fails otherwise; with no
\* node carrying the marker it waits for one and times out.
ClickAttempt(ex, text, via, on_page) ==
    (IF on_page THEN ClickOk(AfterClick(ex), via) \cup ClickErrorHandler(ex)
     ELSE {})
    \cup ClickTimeoutHandler(ex, text)

\* click_element, marker no longer on the page: after the fresh distillation.
ClickRefreshed(ex, text) ==
    IF text # <<>>
    THEN LET same == SelectSeq(ex.last_elements,
                               LAMBDA el : Strip(el.text) = text) IN
         IF same # <<>>
         THEN Stepped(Clicking(ClickAttempt(ex, text, "refreshed agent-id",
                                            same[1].id \in ex.live),
                               same[1], "refreshed agent-id"), "refreshed")
         ELSE Stepped(ClickOk(AfterClick(ex), "text fallback")
                      \cup {Return(Fail("click_element", "ClickError"), ex)},
                      "text")
    ELSE {Return(Fail("click_element", "ElementNotFound"), ex)}

\* ToolExecutor.click_element
click_element(ex, element_id) ==
    LET found == _get_element(ex, element_id) IN
    IF found = <<>>
    THEN {Return(Fail("click_element", "ElementNotFound"), ex)}
    ELSE LET text == Strip(found[1].text) IN
         \* locator.count() raises
         ClickErrorHandler(ex)
         \cup (IF found[1].id \in ex.live
               \* the marker is on the page
               THEN Stepped(Clicking(ClickAttempt(ex, text, "marker", TRUE),
                                     found[1], "marker"), "marker")
               \* locator.count() == 0: re-distill
               ELSE Stepped(
                      UNION { IF r.raised
                              THEN ClickErrorHandler(r.ex)
                                   \cup ClickTimeoutHandler(r.ex, text)
                              ELSE IF ~r.env.success
                              THEN {Return(Fail("click_element", "ClickError"), r.ex)}
                              ELSE ClickRefreshed(r.ex, text)
                              : r \in analyze_page(ex) },
                      "redistill"))

\* ToolExecutor.type_text: fill() on a marker that is not on the page waits
\* and times out.
type_text(ex, element_id) ==
    LET found == _get_element(ex, element_id) IN
    IF found = <<>>
    THEN {Return(Fail("type_text", "ElementNotFound"), ex)}
    ELSE (IF found[1].id \in ex.live
          THEN {Return([Ok("type_text", "") EXCEPT !.typed = <<found[1]>>], ex)}
          ELSE {})
         \cup {Return(Fail("type_text", "Timeout"), ex),
               Return(Fail("type_text", "TypeError"), ex)}

\* ToolExecutor.click_and_type
click_and_type(ex, element_id) ==
    UNION { IF c.raised \/ ~c.env.success THEN {c}
            ELSE { IF t.env.success
                   THEN Return([Ok("click_and_type", "")
                                    EXCEPT !.via = c.env.via,
                                           !.clicked = c.env.clicked,
                                           !.typed = t.env.typed], t.ex)
                   ELSE Return(_result(FALSE, "click_and_type", t.env.error_type,
                                       t.env.suggestion, "", FALSE), t.ex)
                   : t \in type_text(c.ex, element_id) }
            : c \in click_element(ex, element_id) }

\* ToolExecutor.click_text
click_text(ex) ==
    {LET synced == _sync_active_page(e) IN
     Return(WithUrl(Ok("click_text", ""), synced), synced) : e \in AfterClick(ex)}
    \cup {Return(Fail("click_text", "Timeout"), ex),
          Return(Fail("click_text", "ClickError"), ex)}

\* ToolExecutor.navigate_url
navigate_url_unsynced(ex) ==
    {Return(Ok("navigate_url", ""), Rerendered(ex)),
     Return(Fail("navigate_url", "Timeout"), ex),
     Return(Fail("navigate_url", "NavigationError"), ex)}

navigate_url(ex) ==
    {Return(Ok("navigate_url", ""), _sync_active_page(Rerendered(ex))),
     Return(Fail("navigate_url", "Timeout"), ex),
     Return(Fail("navigate_url", "NavigationError"), ex)}

\* ToolExecutor.take_screenshot
take_screenshot(ex, embed_b64) ==
    IF ~ex.screenshot_dir /\ ~embed_b64
    THEN {Return(Fail("take_screenshot", "ScreenshotError"), ex)}
    ELSE {Return(_result(TRUE, "take_screenshot", "None", FALSE, "", embed_b64), ex),
          Return(Fail("take_screenshot", "ScreenshotError"), ex)}

\* ToolExecutor.wait_for_element: only TimeoutError is caught.
wait_for_element(ex) ==
    {Return(Ok("wait_for_element", ""), ex),
     Return(Fail("wait_for_element", "Timeout"), ex),
     Raise(ex)}

\* ToolExecutor.scroll_page
scroll_page(ex) ==
    {Return(Ok("scroll_page", ""), ex), Return(Fail("scroll_page", "ScrollError"), ex)}

\* ToolExecutor.switch_to_page: pages[index] with Python's negative indices.
switch_to_page(ex, index) ==
    IF ~ex.context
    THEN {Return(_result(FALSE, "switch_to_page", "ContextError", TRUE, "", FALSE), ex)}
    ELSE IF ex.npages = 0
    THEN {Return(Fail("switch_to_page", "PageSwitchError"), ex)}
    ELSE IF index >= ex.npages \/ index < 0 - ex.npages
    THEN {Return(Fail("switch_to_page", "PageSwitchError"), ex)}
    ELSE {Return(Ok("switch_to_page", ""),
                 OnPage(ex, IF index >= 0 THEN index + 1
                            ELSE ex.npages + index + 1))}

\* ToolExecutor.go_back
go_back(ex) ==
    {Return(Ok("go_back", ""), _sync_active_page(Rerendered(ex))),
     Return(Fail("go_back", "NavigationError"), ex)}

\* ToolExecutor.close_modal
close_modal(ex) ==
    {Return(Ok("close_modal", "selector"), _sync_active_page(e)) : e \in AfterClick(ex)}
    \cup {Return(Ok("close_modal", "Escape"), ex),
          Return(_result(FALSE, "close_modal", "ModalError", TRUE, "", FALSE), ex)}

\* ToolExecutor.search_elements
search_elements(ex) ==
    IF ex.last_elements = <<>>
    THEN { IF r.raised THEN r ELSE Return(Ok("search_elements", ""), r.ex)
           : r \in analyze_page(ex) }
    ELSE {Return(Ok("search_elements", ""), ex)}

\* DomSubAgent.answer: self.client.messages.create(...) returns, or raises;
\* nothing in answer catches it.
DomAnswers == {"answer", "raise"}

\* `answer = dom_agent.answer(question, snapshot_data)` and the result built
\* from it, in query_dom.
DomAnswer(ex, a) ==
    IF a = "raise" THEN RaiseIn(ex, "dom_agent")
    ELSE Return(Ok("query_dom", ""), ex)

\* ToolExecutor.query_dom
query_dom(ex) ==
    UNION { IF r.raised THEN {r}
            ELSE IF ~r.env.success
            THEN {Return(Fail("query_dom", "AnalysisError"), r.ex)}
            ELSE IF ~r.ex.dom_agent
            \* data={"snapshot": snapshot_data}
            THEN {Return(Fail("query_dom", "DomAgentError"),
                         [r.ex EXCEPT !.shown = r.ex.last_elements])}
            ELSE {DomAnswer(r.ex, a) : a \in DomAnswers}
            : r \in analyze_page(ex) }

\* ToolExecutor.validate_task_complete: no driver call is guarded.
validate_task_complete(ex) ==
    {Return(Ok("validate_task_complete", ""), ex), Raise(ex)}

\* ToolExecutor.extract_text
extract_text(ex) ==
    {Return(Ok("extract_text", ""), ex),
     Return(Fail("extract_text", "Timeout"), ex),
     Return(Fail("extract_text", "ExtractError"), ex)}

\* ToolExecutor.collect_elements
collect_elements(ex) ==
    {Return(Ok("collect_elements", ""), ex),
     Return(Fail("collect_elements", "CollectError"), ex)}

\* ToolExecutor.switch_frame: the frame's page is a page of the context.
switch_frame(ex) ==
    {Return(Ok("switch_frame", ""), OnPage(ex, p)) : p \in 1..ex.npages}
    \cup {Return(Fail("switch_frame", "FrameError"), ex)}

(***************************************************************************)
(* The destructive-action gate.                                            *)
(***************************************************************************)
\* `dangerous_keywords`
dangerous_keywords ==
    << <<"c:o", "c:p", "c:l", "c:a", "c:t", "c:i", "c:t", "c:soft">>,
       <<"c:o", "c:p", "c:l", "c:a", "c:t", "c:a">>,
       <<"c:z", "c:a", "c:p", "c:l", "c:a", "c:t", "c:i", "c:t", "c:soft">>,
       <<"p", "a", "y">>,
       <<"p", "a", "y", "m", "e", "n", "t">>,
       <<"c", "h", "e", "c", "k", "o", "u", "t">>,
       <<"p", "u", "r", "c", "h", "a", "s", "e">>,
       <<"b", "u", "y", " ", "n", "o", "w">>,
       <<"b", "u", "y">>,
       <<"o", "r", "d", "e", "r">>,
       <<"p", "l", "a", "c", "e", " ", "o", "r", "d", "e", "r">>,
       <<"c:u", "c:d", "c:a", "c:l", "c:i", "c:t", "c:soft">>,
       <<"c:u", "c:d", "c:a", "c:l", "c:e", "c:n", "c:i", "c:e">>,
       <<"d", "e", "l", "e", "t", "e">>,
       <<"r", "e", "m", "o", "v", "e">>,
       <<"t", "r", "a", "s", "h">>,
       <<"c:o", "c:ch", "c:i", "c:s", "c:t", "c:i", "c:t", "c:soft">>,
       <<"c", "l", "e", "a", "r", " ", "a", "l", "l">>,
       <<"c:o", "c:ch", "c:i", "c:s", "c:t", "c:k", "c:a">>,
       <<"c:o", "c:t", "c:p", "c:r", "c:a", "c:v", "c:i", "c:t", "c:soft">>,
       <<"s", "u", "b", "m", "i", "t">>,
       <<"s", "e", "n", "d">>,
       <<"c:p", "c:u", "c:b", "c:l", "c:i", "c:k", "c:o", "c:v", "c:a", "c:t", "c:soft">>,
       <<"p", "u", "b", "l", "i", "s", "h">>,
       <<"p", "o", "s", "t">>,
       <<"u", "n", "s", "u", "b", "s", "c", "r", "i", "b", "e">>,
       <<"c:o", "c:t", "c:p", "c:i", "c:s", "c:a", "c:t", "c:soft", "c:s", "c:ya">>,
       <<"c:a", "c:r", "c:h", "c:i", "c:v", "c:i", "c:r", "c:o", "c:v", "c:a", "c:t", "c:soft">>,
       <<"a", "r", "c", "h", "i", "v", "e">> >>

\* The label of a click, as _is_potentially_destructive derives it.
ClickLabelCaseSensitive(last_elements, name, params) ==
    IF name = "click_text"
    THEN params.text.s
    ELSE IF params.element_id.kind # "int"
    THEN <<>>
    ELSE LET hits == SelectSeq(last_elements,
                               LAMBDA el : el.id = params.element_id.n) IN
         IF hits = <<>> THEN <<>>
         ELSE Join(<< hits[1].text, hits[1].aria_label,
                      hits[1].placeholder, hits[1].href >>)

ClickLabel(last_elements, name, params) ==
    IF name = "click_text"
    THEN Lower(params.text.s)
    ELSE IF params.element_id.kind # "int"
    THEN <<>>
    ELSE LET hits == SelectSeq(last_elements,
                               LAMBDA el : el.id = params.element_id.n) IN
         IF hits = <<>> THEN <<>>
         ELSE Lower(Join(<< hits[1].text, hits[1].aria_label,
                            hits[1].placeholder, hits[1].href >>))

\* `any(kw in label for kw in dangerous_keywords)`
HasDangerousKeyword(label) ==
    \E i \in 1..Len(dangerous_keywords) : Contains(label, dangerous_keywords[i])

\* The actions the gate looks at.
GatedActionsWithTyping == {"click_element", "click_text", "click_and_type"}

GatedActions == {"click_element", "click_text"}

\* BrowserAgent._is_potentially_destructive
_is_potentially_destructive(confirm_actions, last_elements, name, params) ==
    IF ~confirm_actions THEN FALSE
    ELSE IF name \notin GatedActions THEN FALSE
    ELSE LET label == ClickLabel(last_elements, name, params) IN
         IF label = <<>> THEN FALSE ELSE HasDangerousKeyword(label)

\* `ans not in {"y", "yes", "d", "da"}` (the last two in Russian), after
\* input().strip().lower()
IsAffirmativePrefix(ans) ==
    LET a == Lower(Strip(ans)) IN a # <<>> /\ a[1] \in {"y", "c:d"}

IsAffirmative(ans) ==
    Lower(Strip(ans)) \in {<<"y">>, <<"y", "e", "s">>, <<"c:d">>, <<"c:d", "c:a">>}

(***************************************************************************)
(* Tool dispatch.                                                          *)
(***************************************************************************)
\* The action name surface.
ToolNames ==
    {"analyze_page", "click_element", "type_text", "click_and_type", "click_text",
     "navigate_url", "take_screenshot", "wait_for_element", "search_elements",
     "validate_task_complete", "query_dom", "finish_task", "scroll_page",
     "switch_to_page", "go_back", "extract_text", "collect_elements",
     "switch_frame", "close_modal"}

\* A name the model may send that is no tool.
UnknownTool == "open_tab"

\* The envelope of a cancelled click.
CancelEnvelope(name) ==
    Envelope({"success", "action", "message", "error_type", "data"},
             FALSE, name, "UserCancelled", FALSE, "", FALSE)

\* The envelope finish_task returns.
FinishEnvelope ==
    Envelope({"success", "action", "message", "data"},
             TRUE, "finish_task", "None", FALSE, "", FALSE)

\* The result for a name that is no tool.
UnknownEnvelopeBlank == Envelope({}, FALSE, "", "None", FALSE, "", FALSE)

UnknownEnvelope == Envelope({"error"}, FALSE, "", "None", FALSE, "", FALSE)

\* int(params["element_id"]) and the like: raises unless present and coercible.
IntOf(v) == v.kind = "int"

\* The chain of `if name == ...` of _dispatch_tool, after the gate.
Execute(ex, name, params) ==
    CASE name = "analyze_page" -> Listed(analyze_page(ex))
      [] name = "click_element" ->
            IF IntOf(params.element_id)
            THEN click_element(ex, params.element_id.n) ELSE {Raise(ex)}
      [] name = "type_text" ->
            IF IntOf(params.element_id) /\ params.text.kind = "str"
            THEN type_text(ex, params.element_id.n) ELSE {Raise(ex)}
      [] name = "click_and_type" ->
            IF IntOf(params.element_id) /\ params.text.kind = "str"
            THEN click_and_type(ex, params.element_id.n) ELSE {Raise(ex)}
      [] name = "click_text" ->
            IF params.text.kind = "str" THEN click_text(ex) ELSE {Raise(ex)}
      [] name = "navigate_url" ->
            IF params.required THEN navigate_url(ex) ELSE {Raise(ex)}
      [] name = "take_screenshot" -> take_screenshot(ex, params.embed_b64)
      [] name = "wait_for_element" ->
            IF params.required /\ params.coercible
            THEN wait_for_element(ex) ELSE {Raise(ex)}
      [] name = "search_elements" ->
            IF params.required /\ params.coercible
            THEN search_elements(ex) ELSE {Raise(ex)}
      [] name = "validate_task_complete" -> validate_task_complete(ex)
      [] name = "query_dom" ->
            IF params.required THEN query_dom(ex) ELSE {Raise(ex)}
      [] name = "finish_task" -> {Return(FinishEnvelope, ex)}
      [] name = "scroll_page" ->
            IF params.coercible THEN scroll_page(ex) ELSE {Raise(ex)}
      [] name = "switch_to_page" ->
            IF params.index.kind = "bad" THEN {Raise(ex)}
            ELSE switch_to_page(ex, IF params.index.kind = "int"
                                    THEN params.index.n ELSE -1)
      [] name = "go_back" -> go_back(ex)
      [] name = "extract_text" ->
            IF params.required /\ params.coercible
            THEN extract_text(ex) ELSE {Raise(ex)}
      [] name = "collect_elements" ->
            IF params.required /\ params.coercible
            THEN collect_elements(ex) ELSE {Raise(ex)}
      [] name = "switch_frame" ->
            IF params.coercible THEN switch_frame(ex) ELSE {Raise(ex)}
      [] name = "close_modal" -> close_modal(ex)
      [] OTHER -> {Return(UnknownEnvelope, ex)}

\* What one dispatch did: whether the operator was prompted, whether the
\* executor chain was entered, and the result.
Dispatched(prompted, executed, r) ==
    [prompted |-> prompted, executed |-> executed, raised |-> r.raised,
     env |-> r.env, ex |-> r.ex]

\* BrowserAgent._dispatch_tool, the operator answering `ans` when prompted.
_dispatch_tool(confirm_actions, ex, name, params, ans) ==
    LET prompted == _is_potentially_destructive(confirm_actions, ex.last_elements,
                                                name, params) IN
    IF prompted /\ ~IsAffirmative(ans)
    THEN {Dispatched(TRUE, FALSE, Return(CancelEnvelope(name), ex))}
    ELSE {Dispatched(prompted, TRUE, r) : r \in Execute(ex, name, params)}

(***************************************************************************)
(* The conversation.  A text is known by where it came from: the empty     *)
(* string, the n-th text the summarizer produced, or the text of a         *)
(* response of iteration n.  `constraint` marks a text or turn that states *)
(* the user's constraint of turn 2.                                        *)
(***************************************************************************)
Text(src, ver, constraint) ==
    [src |-> src, ver |-> ver, constraint |-> constraint, str |-> <<>>]

\* The text `str` of a response, kept as the summary of the run: `str` is
\* recorded for this text only.  (_truncate_content cuts at 800 characters,
\* more than any text of ResponseTexts has.)
FinalText(it, str) == [Text("response", it, FALSE) EXCEPT !.str = Strip(str)]

EmptyText == Text("empty", 0, FALSE)

NoId == <<0, 0>>

Block(type, id, text) == [type |-> type, id |-> id, text |-> text]

\* A turn {"role": ..., "content": ...}: content is a string (`str`) or a
\* list of blocks (`content`, with is_list).
Turn(role, is_list, str, content, constraint) ==
    [role |-> role, is_list |-> is_list, str |-> str, content |-> content,
     constraint |-> constraint]

\* {"role": "user", "content": self.config.task}
TaskTurn(task) == Turn("user", FALSE, task, <<>>, FALSE)

\* BrowserAgent._serialize_blocks, for the response of iteration `it`: the
\* id of the tool_use block at position p is <<it, p>>.
_serialize_blocks(blocks, it) ==
    [p \in 1..Len(blocks) |->
        IF blocks[p] = "tool_use" THEN Block("tool_use", <<it, p>>, EmptyText)
        ELSE Block("text", NoId, Text("response", it, FALSE))]

\* messages.append({"role": "assistant", "content": assistant_content})
AssistantTurn(blocks, it, constraint) ==
    Turn("assistant", TRUE, "", _serialize_blocks(blocks, it), constraint)

\* {"type": "tool_result", "tool_use_id": block.id, "content": content_str}
ToolResultBlock(tr) == Block("tool_result", tr.tool_use_id, EmptyText)

\* messages.append({"role": "user", "content": tool_results})
ResultsTurnFirstOnly(tool_results) ==
    Turn("user", TRUE, "", <<ToolResultBlock(tool_results[1])>>, FALSE)

ResultsTurn(tool_results) ==
    Turn("user", TRUE, "",
         [k \in 1..Len(tool_results) |-> ToolResultBlock(tool_results[k])], FALSE)

HasBlock(msg, type) ==
    msg.is_list /\ \E k \in 1..Len(msg.content) : msg.content[k].type = type

(***************************************************************************)
(* The history manager.                                                    *)
(***************************************************************************)
\* What the summarization call does: it returns text, returns no text, or
\* raises.
SummarizerOutcomes == {"text", "empty", "raise"}

\* BrowserAgent._summarize_history.  A text the summarizer returns is its
\* n-th; it states the constraint when the prior summary or a turn of the
\* history does.
_summarize_history_resetting(history, prior_summary, so, n) ==
    IF so = "text"
    THEN Text("summarizer", n,
              prior_summary.constraint
              \/ \E i \in 1..Len(history) : history[i].constraint)
    ELSE EmptyText

_summarize_history(history, prior_summary, so, n) ==
    IF so = "text"
    THEN Text("summarizer", n,
              prior_summary.constraint
              \/ \E i \in 1..Len(history) : history[i].constraint)
    ELSE prior_summary

\* `window = max(3, self.config.history_window)`
MinWindow == 3

WindowUnclamped(history_window) == history_window

Window(history_window) ==
    IF history_window > MinWindow THEN history_window ELSE MinWindow

\* The summary turn put after the task.
SummaryBlock(summary) ==
    Turn("assistant", TRUE, "",
         << Block("text", NoId, summary) >>, summary.constraint)

\* `pruned = [first, summary_block] + recent`
PrunedWithoutTask(first, summary_block, recent) == <<summary_block>> \o recent

PrunedSummaryLast(first, summary_block, recent) ==
    <<first>> \o recent \o <<summary_block>>

Pruned(first, summary_block, recent) == <<first, summary_block>> \o recent

\* The repair loop's test on a tool-result turn: it stays only after an
\* assistant turn with a tool_use block.
KeepsToolResultAfterAssistant(prev) ==
    prev # <<>> /\ prev[1].role = "assistant"

KeepsToolResult(prev) ==
    prev # <<>> /\ prev[1].role = "assistant" /\ HasBlock(prev[1], "tool_use")

\* The repair loop of _apply_history_window over pruned[i..], `cleaned`
\* being the turns kept so far (prev is the last of them).
RECURSIVE Cleaned(_, _, _)
Cleaned(pruned, i, cleaned) ==
    IF i > Len(pruned) THEN cleaned
    ELSE LET msg == pruned[i]
             prev == IF cleaned = <<>> THEN <<>> ELSE <<cleaned[Len(cleaned)]>>
         IN IF HasBlock(msg, "tool_result") /\ ~KeepsToolResult(prev)
            THEN Cleaned(pruned, i + 1, cleaned)
            ELSE Cleaned(pruned, i + 1, Append(cleaned, msg))

\* Whether _apply_history_window summarizes.
SummarizesNever(msgs, history_window) == FALSE

Summarizes(msgs, history_window) ==
    Len(msgs) > Window(history_window) /\ Len(msgs) - 1 > Window(history_window)

\* BrowserAgent._apply_history_window: the conversation returned and the
\* summary stored, the summarization call (the n-th) ending as `so`.
_apply_history_window(msgs, history_window, summary, so, n) ==
    IF ~Summarizes(msgs, history_window)
    THEN [messages |-> msgs, summary |-> summary]
    ELSE LET window == Window(history_window)
             first == msgs[1]
             rest == Tail(msgs)
             older == SubSeq(rest, 1, Len(rest) - window)
             recent == SubSeq(rest, Len(rest) - window + 1, Len(rest))
             new_summary == _summarize_history(older, summary, so, n)
             pruned == Pruned(first, SummaryBlock(new_summary), recent)
         IN [messages |-> Cleaned(pruned, 1, <<>>), summary |-> new_summary]

(***************************************************************************)
(* The explicit-completion heuristic.                                      *)
(***************************************************************************)
\* `finish_markers`
finish_markers ==
    << <<"c:z", "c:a", "c:d", "c:a", "c:ch", "c:a", " ", "c:v", "c:y", "c:p", "c:o", "c:l", "c:n", "c:e", "c:n", "c:a">>,
       <<"c:z", "c:a", "c:d", "c:a", "c:ch", "c:a", " ", "c:p", "c:o", "c:l", "c:n", "c:o", "c:s", "c:t", "c:soft", "c:yu", " ", "c:v", "c:y", "c:p", "c:o", "c:l", "c:n", "c:e", "c:n", "c:a">>,
       <<"c:z", "c:a", "c:d", "c:a", "c:ch", "c:a", " ", "c:c", "c:e", "c:l", "c:i", "c:k", "c:o", "c:m", " ", "c:v", "c:y", "c:p", "c:o", "c:l", "c:n", "c:e", "c:n", "c:a">>,
       <<"c:z", "c:a", "c:d", "c:a", "c:ch", "c:a", " ", "c:r", "c:e", "c:sh", "c:e", "c:n", "c:a">>,
       <<"c:c", "c:e", "c:l", "c:soft", " ", "c:d", "c:o", "c:s", "c:t", "c:i", "c:g", "c:n", "c:u", "c:t", "c:a">>,
       <<"c:c", "c:e", "c:l", "c:soft", " ", "c:z", "c:a", "c:d", "c:a", "c:ch", "c:i", " ", "c:d", "c:o", "c:s", "c:t", "c:i", "c:g", "c:n", "c:u", "c:t", "c:a">> >>

\* BrowserAgent._should_auto_finish_from_text
_should_auto_finish_from_text(text) ==
    IF text = <<>> THEN FALSE
    ELSE \E i \in 1..Len(finish_markers) : Contains(Lower(text), finish_markers[i])

T_empty == <<>>
\* In Russian: "Opening the cart"
T_thinking == <<"C:o", "c:t", "c:k", "c:r", "c:y", "c:v", "c:a", "c:yu", " ", "c:k", "c:o", "c:r", "c:z", "c:i", "c:n", "c:u">>
\* In Russian: "The task is done"
T_done == <<"C:z", "c:a", "c:d", "c:a", "c:ch", "c:a", " ", "c:v", "c:y", "c:p", "c:o", "c:l", "c:n", "c:e", "c:n", "c:a">>
\* In Russian: "Perhaps the task is solved?"
T_hedged == <<"C:v", "c:o", "c:z", "c:m", "c:o", "c:zh", "c:n", "c:o", ",", " ", "c:z", "c:a", "c:d", "c:a", "c:ch", "c:a", " ", "c:r", "c:e", "c:sh", "c:e", "c:n", "c:a", "?">>

\* The texts of the responses of the model.
ResponseTexts == {T_empty, T_thinking, T_done, T_hedged}

(***************************************************************************)
(* The agent loop: BrowserAgent.run.                                       *)
(***************************************************************************)
VARIABLES
    cfg,            \* AgentConfig: task, max_iterations, history_window, confirm_actions
    service,        \* the environment of this run: the tools the completion
                    \* service invokes, the shapes of its responses and the
                    \* pages the browser shows
    messages,       \* the conversation
    summary,        \* BrowserAgent.summary
    finished,       \* BrowserAgent._finished
    executor,       \* the ToolExecutor (and its BrowserSession)
    iteration,      \* the loop variable of run
    pc,             \* "call": about to call the completion service;
                    \* "blocks": walking the blocks of the response; "done"
    outcome,        \* how the run ended, "running" before
    response,       \* the response of this iteration: block types, stop reason
    pos,            \* the position in response.blocks of the next block
    tool_results,   \* the tool results of this iteration
    llm_calls,      \* main completion-service calls made so far
    sum_calls,      \* summarization calls made so far
    last_sum,       \* how the summarization call of the last step ended
    last_apply,     \* what the history manager did in the last step
    last_call,      \* the tool invocation dispatched last in this iteration
    tool_iters_only \* every iteration completed so far ran a tool

vars ==
    << cfg, service, messages, summary, finished, executor, iteration, pc, outcome,
       response, pos, tool_results, llm_calls, sum_calls, last_sum, last_apply,
       last_call, tool_iters_only >>

\* The block sequences of the responses of the model.
ResponseShapes ==
    { <<"text">>, <<"tool_use">>, <<"text", "tool_use">>,
      <<"tool_use", "tool_use">>, <<"tool_use", "text">> }

StopReasons == {"end_turn", "max_tokens"}

\* The tools the completion service invokes in the runs that explore the
\* loop and the history manager, and in those that explore the gate.
LoopTools == {"validate_task_complete", "finish_task"}

ClickTools ==
    {"analyze_page", "click_element", "click_text", "query_dom",
     "take_screenshot", "finish_task", UnknownTool}

DefaultParams == Params(MissingVal, MissingStr, MissingVal, TRUE, TRUE, FALSE)

\* The parameter maps the completion service sends with a tool.
ParamsOf(name) ==
    CASE name = "click_element" ->
            {[DefaultParams EXCEPT !.element_id = v] :
                v \in {IntVal(0), IntVal(1), IntVal(2), MissingVal}}
      [] name = "click_text" ->
            {[DefaultParams EXCEPT !.text = v] :
                v \in {StrVal(S_Checkout), StrVal(S_next_page), MissingStr}}
      [] name = "navigate_url" ->
            {[DefaultParams EXCEPT !.required = b] : b \in BOOLEAN}
      [] name = "take_screenshot" ->
            {[DefaultParams EXCEPT !.embed_b64 = b] : b \in BOOLEAN}
      [] name \in {"type_text", "click_and_type"} ->
            {[DefaultParams EXCEPT !.element_id = v, !.text = StrVal(S_all)] :
                v \in {IntVal(0), IntVal(1)}}
      [] OTHER -> {DefaultParams}

\* What the operator may type at input(): nothing is read unless the gate
\* prompts.
AnswersTo(confirm_actions, ex, name, params) ==
    IF _is_potentially_destructive(confirm_actions, ex.last_elements, name, params)
    THEN Answers ELSE {<<>>}

NoCall ==
    [name |-> "", params |-> DefaultParams, id |-> NoId, prompted |-> FALSE,
     answer |-> <<>>, executed |-> FALSE, raised |-> FALSE, env |-> NoEnvelope]

\* `for iteration in range(1, self.config.max_iterations + 1)`: whether the
\* loop runs another iteration after iteration `it`.
HasNextIterationInclusive(it, max_iterations) == it <= max_iterations

HasNextIteration(it, max_iterations) == it < max_iterations

\* `if block.name == "finish_task"`
IsFinishCallMisspelt(name) == name = "finish"

IsFinishCall(name) == name = "finish_task"

\* The payload of a tool result: the envelope, without the base64 image of
\* a screenshot.
PayloadUnstripped(name, env) == env

Payload(name, env) ==
    IF name = "take_screenshot" /\ env.b64 THEN [env EXCEPT !.b64 = FALSE] ELSE env

ToolResultUntagged(id, payload) == [tool_use_id |-> NoId, payload |-> payload]

ToolResult(id, payload) == [tool_use_id |-> id, payload |-> payload]

Configs ==
    [task : {"task"}, max_iterations : 0..MaxIterations,
     history_window : 1..MaxHistoryWindow, confirm_actions : {FALSE}]

\* The runs that explore the gate: the default --history-window.
DefaultHistoryWindow == 7

\* The runs that follow an id the model holds over several invocations.
MaxHeldIterations == 3

HeldTools ==
    {"analyze_page", "query_dom", "click_element", "type_text", "click_and_type"}

HeldConfigs ==
    [task : {"task"}, max_iterations : 1..MaxHeldIterations,
     history_window : {DefaultHistoryWindow}, confirm_actions : {FALSE}]

ClickConfigs ==
    [task : {"task"}, max_iterations : 1..MaxClickIterations,
     history_window : {DefaultHistoryWindow}, confirm_actions : BOOLEAN]

\* ToolExecutor.__init__ over the BrowserSession main() opened.
InitialExecutor ==
    [last_elements |-> <<>>, shown |-> <<>>, stamped |-> <<>>, live |-> {},
     site |-> Pages,
     page |-> 1, npages |-> 1,
     context |-> TRUE,
     dom_agent |-> TRUE, screenshot_dir |-> TRUE]

\* The state after BrowserAgent.__init__, at the head of run's loop.
Start ==
    /\ messages = <<TaskTurn(cfg.task)>>
    /\ summary = EmptyText
    /\ finished = FALSE
    /\ executor = [InitialExecutor EXCEPT !.site = service.site]
    /\ iteration = IF HasNextIteration(0, cfg.max_iterations) THEN 1 ELSE 0
    /\ pc = IF HasNextIteration(0, cfg.max_iterations) THEN "call" ELSE "done"
    /\ outcome = IF HasNextIteration(0, cfg.max_iterations)
                 THEN "running" ELSE "not_completed"
    /\ response = [blocks |-> <<>>, stop_reason |-> "end_turn"]
    /\ pos = 1
    /\ tool_results = <<>>
    /\ llm_calls = 0
    /\ sum_calls = 0
    /\ last_sum = "none"
    /\ last_apply = "none"
    /\ last_call = NoCall
    /\ tool_iters_only = TRUE

Init ==
    /\ cfg \in Configs
    /\ service = [tools |-> LoopTools, site |-> Pages, shapes |-> ResponseShapes]
    /\ Start

InitClicks ==
    /\ cfg \in ClickConfigs
    /\ service = [tools |-> ClickTools, site |-> ClickPages, shapes |-> ClickShapes]
    /\ Start

InitHeld ==
    /\ cfg \in HeldConfigs
    /\ service = [tools |-> HeldTools, site |-> ClickPages, shapes |-> ClickShapes]
    /\ Start

\* self.client.messages.create(...) returns a response; the assistant turn
\* is appended.
CallCompletion ==
    /\ pc = "call"
    /\ \E blocks \in service.shapes, stop_reason \in StopReasons :
          /\ response' = [blocks |-> blocks, stop_reason |-> stop_reason]
          /\ messages' = Append(messages,
                                AssistantTurn(blocks, iteration, Len(messages) = 1))
    /\ pos' = 1
    /\ tool_results' = <<>>
    /\ llm_calls' = llm_calls + 1
    /\ pc' = "blocks"
    /\ last_sum' = "none"
    /\ last_apply' = "none"
    /\ UNCHANGED << cfg, service, summary, finished, executor, iteration, outcome,
                    sum_calls, last_call, tool_iters_only >>

\* self.client.messages.create(...) raises: nothing in run catches it.
CompletionRaises ==
    /\ pc = "call"
    /\ llm_calls' = llm_calls + 1
    /\ pc' = "done"
    /\ outcome' = "crashed"
    /\ last_sum' = "none"
    /\ last_apply' = "none"
    /\ UNCHANGED << cfg, service, messages, summary, finished, executor, iteration,
                    response, pos, tool_results, sum_calls, last_call,
                    tool_iters_only >>

\* A text block of the response.
ProcessText ==
    /\ pc = "blocks"
    /\ pos <= Len(response.blocks)
    /\ response.blocks[pos] = "text"
    /\ \E text \in ResponseTexts :
          IF _should_auto_finish_from_text(text)
          THEN /\ summary' = FinalText(iteration, text)
               /\ pc' = "done"
               /\ outcome' = "finished_by_text"
               /\ pos' = pos
          ELSE /\ pos' = pos + 1
               /\ UNCHANGED << summary, pc, outcome >>
    /\ UNCHANGED << cfg, service, messages, finished, executor, iteration, response,
                    tool_results, llm_calls, sum_calls, last_sum, last_apply,
                    last_call, tool_iters_only >>

\* A tool_use block of the response: dispatch, then finish or keep the result.
ProcessToolUse ==
    /\ pc = "blocks"
    /\ pos <= Len(response.blocks)
    /\ response.blocks[pos] = "tool_use"
    /\ \E name \in service.tools :
       \E params \in ParamsOf(name) :
       \E ans \in AnswersTo(cfg.confirm_actions, executor, name, params) :
       \E d \in _dispatch_tool(cfg.confirm_actions, executor, name, params, ans) :
          /\ last_call' =
                [name |-> name, params |-> params, id |-> <<iteration, pos>>,
                 prompted |-> d.prompted,
                 answer |-> ans,
                 executed |-> d.executed, raised |-> d.raised, env |-> d.env]
          /\ executor' = d.ex
          /\ finished' = (finished \/ (name = "finish_task" /\ d.executed))
          /\ IF d.raised
             THEN /\ pc' = "done"
                  /\ outcome' = "crashed"
                  /\ UNCHANGED << pos, tool_results >>
             ELSE IF IsFinishCall(name)
             THEN /\ pc' = "done"
                  /\ outcome' = "finished"
                  /\ UNCHANGED << pos, tool_results >>
             ELSE /\ tool_results' =
                        Append(tool_results,
                               ToolResult(<<iteration, pos>>, Payload(name, d.env)))
                  /\ pos' = pos + 1
                  /\ UNCHANGED << pc, outcome >>
    /\ UNCHANGED << cfg, service, messages, summary, iteration, response, llm_calls,
                    sum_calls, last_sum, last_apply, tool_iters_only >>

\* The end of the `for` loop's body and its head: the next iteration, or
\* the `else` clause ("Max iterations reached without explicit completion").
LoopHead ==
    IF HasNextIteration(iteration, cfg.max_iterations)
    THEN /\ iteration' = iteration + 1
         /\ pc' = "call"
         /\ outcome' = outcome
    ELSE /\ iteration' = iteration
         /\ pc' = "done"
         /\ outcome' = "not_completed"

\* messages = self._apply_history_window(msgs), then the loop's head.
ApplyAndContinue(msgs) ==
    \E so \in IF Summarizes(msgs, cfg.history_window)
              THEN SummarizerOutcomes ELSE {"none"} :
       LET a == _apply_history_window(msgs, cfg.history_window, summary, so,
                                      sum_calls + 1) IN
       /\ messages' = a.messages
       /\ summary' = a.summary
       /\ last_sum' = so
       /\ last_apply' = IF so = "none" THEN "unchanged" ELSE "windowed"
       /\ sum_calls' = IF so = "none" THEN sum_calls ELSE sum_calls + 1
       /\ LoopHead

\* `if response.stop_reason == "end_turn"`
StopsOnAnyReason(stop_reason) == TRUE

StopsOnEndTurn(stop_reason) == stop_reason = "end_turn"

\* The blocks of the response are exhausted.
EndIteration ==
    /\ pc = "blocks"
    /\ pos > Len(response.blocks)
    /\ IF tool_results # <<>>
       THEN /\ ApplyAndContinue(Append(messages, ResultsTurn(tool_results)))
            /\ UNCHANGED tool_iters_only
       ELSE IF StopsOnEndTurn(response.stop_reason)
       THEN /\ pc' = "done"
            /\ outcome' = "end_turn"
            /\ UNCHANGED << messages, summary, iteration, sum_calls, last_sum,
                            last_apply, tool_iters_only >>
       ELSE /\ ApplyAndContinue(messages)
            /\ tool_iters_only' = FALSE
    /\ tool_results' = <<>>
    /\ last_call' = NoCall
    /\ UNCHANGED << cfg, service, finished, executor, response, pos, llm_calls >>

(***************************************************************************)
(* One dispatch on its own, for the gate and the executor: any executor    *)
(* state a dispatch can meet and any tool name, dispatched once.           *)
(***************************************************************************)
\* The elements of the last distilled set the gate is explored over.
GateElements(id) ==
    { DistilledElement(id, text, aria_label, placeholder, href) :
        text \in Labels, aria_label \in {S_empty, S_OPLATIT, S_all},
        placeholder \in {S_empty, S_Submit_query}, href \in Hrefs }

GateElementLists ==
    {<<>>}
    \cup {<<e>> : e \in GateElements(0)}
    \cup {<<DistilledElement(0, S_next_page, S_empty, S_empty, S_empty), e>> :
            e \in GateElements(1)}
    \cup {<<DistilledElement(1, S_next_page, S_empty, S_empty, S_empty), e>> :
            e \in GateElements(1)}

\* The parameter maps the gate is explored over.
GateParamsOf(name) ==
    IF name \in {"click_element", "type_text", "click_and_type"}
    THEN {[DefaultParams EXCEPT !.element_id = v, !.text = StrVal(S_next_page)] :
            v \in {IntVal(0), IntVal(1), IntVal(2), MissingVal, BadVal}}
    ELSE IF name = "click_text"
    THEN {[DefaultParams EXCEPT !.text = v] :
            v \in {StrVal(s) : s \in Labels} \cup {MissingStr}}
    ELSE {DefaultParams}

\* The executor with a last distilled set of GateElementLists, its markers
\* on the page or not.
GateExecutors ==
    {[InitialExecutor EXCEPT !.last_elements = l, !.shown = l, !.live = v] :
        l \in GateElementLists, v \in {{}, {0, 1}}}

\* The executor as a distillation of a page left it, and the same after the
\* page re-rendered.
DistilledExecutors ==
    UNION { {[InitialExecutor EXCEPT !.last_elements = d.elements,
                                     !.shown = d.elements,
                                     !.stamped = d.stamped, !.live = d.live],
             [InitialExecutor EXCEPT !.last_elements = d.elements,
                                     !.shown = d.elements,
                                     !.stamped = d.stamped, !.live = {}]}
            : d \in Distillations }

\* The executor after switch_to_page(0) in a context of two pages: the
\* active page is not the newest.
SwitchedExecutors ==
    {[InitialExecutor EXCEPT !.last_elements = d.elements,
                             !.shown = d.elements,
                             !.stamped = d.stamped, !.live = d.live,
                             !.npages = 2, !.page = 1] : d \in Distillations}

GateConfigs ==
    [task : {"task"}, max_iterations : {1},
     history_window : {DefaultHistoryWindow}, confirm_actions : BOOLEAN]

InitGate ==
    /\ cfg \in GateConfigs
    /\ service = [tools |-> ToolNames \cup {UnknownTool}, site |-> Pages,
                 shapes |-> {<<"tool_use">>}]
    /\ messages = <<TaskTurn(cfg.task)>>
    /\ summary = EmptyText
    /\ finished = FALSE
    /\ executor \in GateExecutors \cup DistilledExecutors \cup SwitchedExecutors
    /\ iteration = 1
    /\ pc = "gate"
    /\ outcome = "running"
    /\ response = [blocks |-> <<"tool_use">>, stop_reason |-> "end_turn"]
    /\ pos = 1
    /\ tool_results = <<>>
    /\ llm_calls = 1
    /\ sum_calls = 0
    /\ last_sum = "none"
    /\ last_apply = "none"
    /\ last_call = NoCall
    /\ tool_iters_only = TRUE

\* self._dispatch_tool(block.name, block.input), once.
DispatchOnce ==
    /\ pc = "gate"
    /\ \E name \in service.tools :
       \E params \in GateParamsOf(name) :
       \E ans \in AnswersTo(cfg.confirm_actions, executor, name, params) :
       \E d \in _dispatch_tool(cfg.confirm_actions, executor, name, params, ans) :
          /\ last_call' =
                [name |-> name, params |-> params, id |-> <<iteration, pos>>,
                 prompted |-> d.prompted, answer |-> ans,
                 executed |-> d.executed, raised |-> d.raised, env |-> d.env]
          /\ executor' = d.ex
    /\ pc' = "dispatched"
    /\ UNCHANGED << cfg, service, messages, summary, finished, iteration, outcome,
                    response, pos, tool_results, llm_calls, sum_calls, last_sum,
                    last_apply, tool_iters_only >>

NextGate == DispatchOnce

\* The nodes of the small pages: shown or hidden, inside a dialog or not.
SmallNodes ==
    {Node(IF ~v THEN S_Repost ELSE IF d THEN S_Checkout ELSE S_next_page,
          S_empty, S_empty, S_empty, v, d) : v \in BOOLEAN, d \in BOOLEAN}

\* Every page of at most MaxNodes such nodes.
SmallPages == UNION {[1..n -> SmallNodes] : n \in 0..MaxNodes}

\* Pages with about as many nodes as the scan keeps: one node short of the
\* cap, as many as the cap, one more, and a dialog of half the cap.
LongPages ==
    {[i \in 1..n |-> Node(S_next_page, S_empty, S_empty, S_empty, TRUE, FALSE)] :
        n \in {ElementCap - 1, ElementCap, ElementCap + 1}}
    \cup {[i \in 1..(ElementCap + 2) |->
             Node(IF i = 1 THEN S_Repost ELSE S_next_page, S_empty, S_empty,
                  S_empty, i > 1, FALSE)],
          [i \in 1..(ElementCap \div 2 + 1) |->
             Node(IF i = 1 THEN S_next_page ELSE S_Checkout, S_empty, S_empty,
                  S_empty, TRUE, i > 1)]}

DistillPages == SmallPages \cup LongPages

\* One analyze_page on its own, over each page of DistillPages.
InitDistill ==
    /\ cfg \in GateConfigs
    /\ \E dom \in DistillPages :
          /\ service = [tools |-> {"analyze_page"}, site |-> {dom},
                        shapes |-> {<<"tool_use">>}]
          /\ executor = [InitialExecutor EXCEPT !.site = {dom}]
    /\ messages = <<TaskTurn(cfg.task)>>
    /\ summary = EmptyText
    /\ finished = FALSE
    /\ iteration = 1
    /\ pc = "gate"
    /\ outcome = "running"
    /\ response = [blocks |-> <<"tool_use">>, stop_reason |-> "end_turn"]
    /\ pos = 1
    /\ tool_results = <<>>
    /\ llm_calls = 1
    /\ sum_calls = 0
    /\ last_sum = "none"
    /\ last_apply = "none"
    /\ last_call = NoCall
    /\ tool_iters_only = TRUE

SpecDistill == InitDistill /\ [][NextGate]_vars

SpecGate == InitGate /\ [][NextGate]_vars

Next ==
    \/ CallCompletion
    \/ CompletionRaises
    \/ ProcessText
    \/ ProcessToolUse
    \/ EndIteration

Spec == Init /\ [][Next]_vars

SpecClicks == InitClicks /\ [][Next]_vars

SpecHeld == InitHeld /\ [][Next]_vars

\* run is one sequential thread: while the run is not over, the statement
\* it is at is executed.
SpecLive == InitClicks /\ [][Next]_vars /\ WF_vars(Next)

(***************************************************************************)
(* Properties of the agent loop (run).                                     *)
(***************************************************************************)

\* C1: when finish_task is dispatched, in any iteration, the run ends in
\* that iteration with the outcome "finished": the completion service has
\* been called once per iteration up to this one and is not called again,
\* no later tool of the same response is dispatched, and the outcome is
\* never "not completed".  No step is taken from a state in which
\* finish_task has been dispatched.
C1_FinishTaskEndsRun ==
    /\ [](last_call.name = "finish_task" =>
            /\ pc = "done"
            /\ outcome = "finished"
            /\ finished
            /\ last_call.id = <<iteration, pos>>
            /\ llm_calls = iteration)
    /\ [][last_call.name # "finish_task"]_vars

\* finish_task dispatched in iteration 1, as the first of two tool
\* invocations of the response, with the largest iteration budget.
C1_Witness ==
    /\ last_call.name = "finish_task"
    /\ iteration = 1
    /\ cfg.max_iterations = MaxIterations
    /\ response.blocks = <<"tool_use", "tool_use">>
    /\ pos = 1

\* C2: the completion service is never called more than max_iterations
\* times; when max_iterations iterations have passed with no terminal
\* signal the run is over with the outcome "not completed" (never an
\* unhandled error), after exactly max_iterations calls: the last iteration
\* ending without a terminal signal ends the run so, and "not completed" is
\* the outcome of no other run.
C2_IterationBound ==
    /\ [](/\ llm_calls <= cfg.max_iterations
          /\ outcome = "not_completed"
             => (pc = "done" /\ llm_calls = cfg.max_iterations
                 /\ iteration = cfg.max_iterations)
          /\ cfg.max_iterations = 0 => outcome = "not_completed")
    /\ [][(/\ pc = "blocks" /\ pos > Len(response.blocks)
           /\ iteration = cfg.max_iterations
           /\ (tool_results # <<>> \/ response.stop_reason # "end_turn"))
          => (/\ pc' = "done" /\ outcome' = "not_completed"
              /\ llm_calls' = cfg.max_iterations)]_vars

\* The largest budget used up by iterations that only invoked tools.
C2_Witness ==
    /\ outcome = "not_completed"
    /\ cfg.max_iterations = MaxIterations
    /\ llm_calls = MaxIterations
    /\ tool_iters_only

(***************************************************************************)
(* Properties of the history manager (_apply_history_window).              *)
(***************************************************************************)

\* C3: the first turn of the conversation is always the user's task turn,
\* verbatim, whatever summarization and windowing have done.
C3_TaskTurnFirst ==
    /\ Len(messages) >= 1
    /\ messages[1] = TaskTurn(cfg.task)
    /\ messages[1].role = "user" /\ messages[1].str = cfg.task

\* The conversation has been windowed and summarized at least twice.
C3_Witness ==
    /\ last_apply = "windowed"
    /\ sum_calls >= 2
    /\ messages[1] = TaskTurn(cfg.task)

\* C4, as the specification states it: in a run of tool-only iterations,
\* after each application of the history manager that windowed the
\* conversation its length is 1 + 1 + W, for odd and even W.
C4_LengthIsWindowPlusTwo ==
    (last_apply = "windowed" /\ tool_iters_only)
        => Len(messages) = 1 + 1 + Window(cfg.history_window)

\* The ids of the blocks of the given type in a turn.
BlockIds(msg, type) ==
    IF msg.is_list
    THEN {msg.content[k].id : k \in {j \in 1..Len(msg.content) :
                                        msg.content[j].type = type}}
    ELSE {}

\* C5: once windowing has started, every tool-result turn of the
\* conversation comes right after an assistant turn whose tool_use ids are
\* the ids its results answer; no other tool-result turn is left.
C5_ToolResultsFollowTheirInvocations ==
    sum_calls >= 1 =>
        \A i \in 1..Len(messages) :
            BlockIds(messages[i], "tool_result") # {} =>
                /\ i > 1
                /\ messages[i - 1].role = "assistant"
                /\ BlockIds(messages[i - 1], "tool_use")
                     = BlockIds(messages[i], "tool_result")

\* A window that began with a tool-result turn: the turn was dropped, and
\* the tool-result turns after it stay.
C5_Witness ==
    /\ last_apply = "windowed"
    /\ tool_iters_only
    /\ Len(messages) = Window(cfg.history_window) + 1
    /\ BlockIds(messages[2], "tool_result") = {}
    /\ BlockIds(messages[3], "tool_use") # {}
    /\ BlockIds(messages[4], "tool_result") # {}

\* C6, as the specification states it: the constraint stated in turn 2 is
\* still in the stored summary after three or more summarizations, failed
\* or empty summarization calls included.
C6_ConstraintSurvives ==
    (sum_calls >= 3 /\ outcome # "finished_by_text") => summary.constraint

\* C7: a summarization call that fails or returns nothing leaves the stored
\* summary as it was, and the run goes on (it is not aborted): the
\* conversation is windowed all the same.
C7_FailedSummaryKeepsPrior ==
    [][(sum_calls' = sum_calls + 1 /\ last_sum' \in {"empty", "raise"})
        => /\ summary' = summary
           /\ last_apply' = "windowed"
           /\ outcome' \in {"running", "not_completed"}
           /\ (iteration < cfg.max_iterations
               => (outcome' = "running" /\ pc' = "call"))]_vars

\* A failed or empty summarization call after a summary was stored.
C7_Witness ==
    /\ last_sum \in {"empty", "raise"}
    /\ summary.src = "summarizer"
    /\ outcome = "running"
    /\ pc = "call"

(***************************************************************************)
(* Properties of the security gate (_is_potentially_destructive and the    *)
(* prompt of _dispatch_tool).                                              *)
(***************************************************************************)

\* The label the specification gives the gate: for click_text the
\* lower-cased text argument, for click_element the lower-cased text,
\* aria-label, placeholder and href of the (first) element with that id in
\* the last distilled set; no label when there is none.
LabelHasKeyword(label) ==
    \E kw \in Range(dangerous_keywords) : Contains(Lower(label), kw)

RequiresConfirmation(last_elements, name, params) ==
    \/ /\ name = "click_text"
       /\ LabelHasKeyword(params.text.s)
    \/ /\ name = "click_element"
       /\ params.element_id.kind = "int"
       /\ \E i \in 1..Len(last_elements) :
            /\ last_elements[i].id = params.element_id.n
            /\ \A j \in 1..(i - 1) : last_elements[j].id # params.element_id.n
            /\ LabelHasKeyword(Join(<< last_elements[i].text,
                                       last_elements[i].aria_label,
                                       last_elements[i].placeholder,
                                       last_elements[i].href >>))

\* C8: with confirmation mode on, a click_element or click_text invocation
\* requires confirmation exactly when its label contains a keyword of the
\* list: always for "Checkout" and for the Cyrillic "OPLATIT'" (any case),
\* never for "Next page", never for an id absent from the last distilled
\* set.
C8_GateIffKeyword ==
    [][(pc = "gate" /\ pc' = "dispatched" /\ cfg.confirm_actions
        /\ last_call'.name \in {"click_element", "click_text"})
        => LET name == last_call'.name
               params == last_call'.params
               ids == {executor.last_elements[i].id :
                          i \in 1..Len(executor.last_elements)}
           IN /\ last_call'.prompted
                    <=> RequiresConfirmation(executor.last_elements, name, params)
              /\ (name = "click_text"
                  /\ params.text \in {StrVal(S_Checkout), StrVal(S_OPLATIT)})
                 => last_call'.prompted
              /\ (name = "click_text" /\ params.text = StrVal(S_next_page))
                 => ~last_call'.prompted
              /\ (name = "click_element"
                  /\ (params.element_id.kind # "int"
                      \/ params.element_id.n \notin ids))
                 => ~last_call'.prompted]_vars

\* click_element on an element whose only dangerous word is in its href,
\* prompted and cancelled (the distilled set is as it was).
C8_Witness ==
    /\ pc = "dispatched"
    /\ cfg.confirm_actions
    /\ last_call.name = "click_element"
    /\ last_call.prompted
    /\ ~last_call.executed
    /\ executor.last_elements =
          <<DistilledElement(0, S_next_page, S_empty, S_empty, S_orders_href)>>

\* The answers the specification takes as a confirmation.
Affirmative(ans) ==
    Lower(Strip(ans)) \in {<<"y">>, <<"y", "e", "s">>, <<"c:d">>, <<"c:d", "c:a">>}

\* C9: when the gate requires confirmation and the operator's answer is not
\* affirmative, the executor is not invoked (nothing of its state changes:
\* no click, the same active page, the same last distilled set), the
\* result is an envelope with success = false and error_type =
\* "UserCancelled", it is queued as the tool result of the invocation, and
\* the run is not ended by it; at the end of the iteration the queued
\* results go to the conversation as its last turn and the loop goes on to
\* the next iteration while there is one.
C9_CancelSkipsExecutor ==
    [][/\ (pc = "blocks" /\ last_call'.id = <<iteration, pos>>
           /\ last_call'.name # ""
           /\ last_call'.prompted /\ ~Affirmative(last_call'.answer))
          => /\ executor' = executor
             /\ ~last_call'.executed
             /\ ~last_call'.raised
             /\ last_call'.env.success = FALSE
             /\ last_call'.env.error_type = "UserCancelled"
             /\ tool_results' =
                   Append(tool_results,
                          ToolResult(<<iteration, pos>>, last_call'.env))
             /\ pc' = "blocks" /\ outcome' = "running" /\ pos' = pos + 1
       /\ (pc = "blocks" /\ pos > Len(response.blocks)
           /\ \E k \in 1..Len(tool_results) :
                 tool_results[k].payload.error_type = "UserCancelled")
          => /\ messages'[Len(messages')] = ResultsTurn(tool_results)
             /\ IF iteration < cfg.max_iterations
                THEN pc' = "call" /\ iteration' = iteration + 1
                     /\ outcome' = "running"
                ELSE pc' = "done" /\ outcome' = "not_completed"]_vars

\* A cancelled click whose result is in the conversation, the loop being at
\* the next call of the completion service.
C9_Witness ==
    /\ pc = "call"
    /\ iteration = 2
    /\ outcome = "running"
    /\ executor = [InitialExecutor EXCEPT !.site = ClickPages]
    /\ messages = <<TaskTurn(cfg.task),
                    AssistantTurn(<<"tool_use">>, 1, TRUE),
                    ResultsTurn(<<ToolResult(<<1, 1>>,
                                             CancelEnvelope("click_text"))>>)>>

\* C10: the operator is prompted only for click_element and click_text and
\* only with confirmation mode on; with confirmation mode off no invocation
\* prompts, and every invocation goes to the dispatch chain.
C10_PromptOnlyForClicks ==
    last_call.name # "" =>
        /\ last_call.prompted
           => (last_call.name \in {"click_element", "click_text"}
               /\ cfg.confirm_actions)
        /\ ~cfg.confirm_actions
           => (~last_call.prompted /\ last_call.executed)
        /\ last_call.name \notin {"click_element", "click_text"}
           => (~last_call.prompted /\ last_call.executed)

\* With confirmation mode off, a click on "Checkout" goes to the executor.
C10_Witness ==
    /\ pc = "dispatched"
    /\ ~cfg.confirm_actions
    /\ last_call.name = "click_text"
    /\ last_call.params.text = StrVal(S_Checkout)
    /\ ~last_call.prompted
    /\ last_call.executed

(***************************************************************************)
(* Properties of the resolver (click_element).                             *)
(***************************************************************************)

\* The executor is as a successful distillation of a page left it: the last
\* distilled set is that of the page and the page has not changed since.
AsDistilled(ex) ==
    \E dom \in Pages :
        /\ Distill(dom).elements = ex.last_elements
        /\ Distill(dom).live = ex.live

\* The step dispatches click_element to the executor with an id of the last
\* distilled set.
ClicksKnownElement ==
    /\ pc = "gate" /\ pc' = "dispatched"
    /\ last_call'.name = "click_element"
    /\ last_call'.executed /\ ~last_call'.raised
    /\ last_call'.params.element_id.kind = "int"
    /\ _get_element(executor, last_call'.params.element_id.n) # <<>>

\* C11, as the specification states it: click_element with an id of a
\* distillation that has just succeeded, the page unchanged since (a page
\* showing a modal dialog included), goes the marker path whatever the
\* driver answers: no re-distillation, no refreshed-id search, no search by
\* visible text.
C11_FreshClickUsesMarkerOnly ==
    [][(ClicksKnownElement /\ AsDistilled(executor))
        => last_call'.env.steps \subseteq {"marker"}]_vars

\* The step is a click_element whose marker is not on the page, whose
\* captured text is not empty and whose fresh distillation holds an element
\* with the same (trimmed) text.
ClicksReplacedElement ==
    /\ ClicksKnownElement
    /\ LET el == _get_element(executor, last_call'.params.element_id.n)[1] IN
       /\ el.id \notin executor.live
       /\ Strip(el.text) # <<>>
       /\ "redistill" \in last_call'.env.steps
       /\ \E i \in 1..Len(executor'.last_elements) :
             Strip(executor'.last_elements[i].text) = Strip(el.text)

\* C12, as the specification states it: such a click succeeds through the
\* refreshed-id path (the first fresh element with the same text is clicked
\* by its new marker and the message says so), and the page is not searched
\* by visible text.
C12_ReplacedElementClickedByNewMarker ==
    [][ClicksReplacedElement
        => /\ last_call'.env.success
           /\ last_call'.env.via = "refreshed agent-id"
           /\ last_call'.env.steps = {"redistill", "refreshed"}]_vars

\* C13, as the specification states it: click_element on an element whose
\* marker is no longer on the page and whose captured text is empty returns
\* a failed envelope with error_type ElementNotFound without any fallback
\* step: no re-distillation (the last distilled set stays), no refreshed-id
\* search, no search by visible text.
C13_GoneTextlessElementNotFound ==
    [][(/\ ClicksKnownElement
        /\ LET el == _get_element(executor, last_call'.params.element_id.n)[1] IN
           el.id \notin executor.live /\ Strip(el.text) = <<>>)
        => /\ ~last_call'.env.success
           /\ last_call'.env.error_type = "ElementNotFound"
           /\ last_call'.env.steps = {}
           /\ executor'.last_elements = executor.last_elements]_vars

\* A click_element invocation has returned a failed envelope.
ClickElementFailed ==
    /\ pc = "dispatched"
    /\ last_call.name = "click_element"
    /\ last_call.executed /\ ~last_call.raised
    /\ ~last_call.env.success

DispatchesBlock ==
    /\ pc = "blocks"
    /\ last_call'.id = <<iteration, pos>>
    /\ last_call'.name # ""

\* C15: a tool_use block naming no tool gets a result that is not a success
\* and has its `error` key set; no executor action runs and nothing is
\* raised; the result is queued as the tool result of that block; the loop
\* goes on with the next block, and at the end of the blocks with the next
\* iteration while there is one.
C15_UnknownToolIsReported ==
    [][/\ (DispatchesBlock /\ last_call'.name \notin ToolNames)
          => /\ ~last_call'.raised
             /\ ~last_call'.prompted
             /\ ~last_call'.env.success
             /\ "error" \in last_call'.env.keys
             /\ executor' = executor
             /\ finished' = finished
             /\ tool_results' =
                   Append(tool_results,
                          ToolResult(<<iteration, pos>>, last_call'.env))
             /\ pc' = "blocks" /\ outcome' = "running" /\ pos' = pos + 1
       /\ (pc = "blocks" /\ pos > Len(response.blocks)
           /\ \E k \in 1..Len(tool_results) :
                 "error" \in tool_results[k].payload.keys
                 /\ "success" \notin tool_results[k].payload.keys)
          => /\ messages'[Len(messages')] = ResultsTurn(tool_results)
             /\ IF iteration < cfg.max_iterations
                THEN pc' = "call" /\ iteration' = iteration + 1
                     /\ outcome' = "running"
                ELSE pc' = "done" /\ outcome' = "not_completed"]_vars

\* The result of an unknown tool, queued, the executor as it was.
C15_Witness ==
    /\ pc = "blocks"
    /\ outcome = "running"
    /\ last_call.name = UnknownTool
    /\ tool_results = <<ToolResult(<<1, 1>>, UnknownEnvelope)>>
    /\ "error" \in tool_results[1].payload.keys
    /\ executor = [InitialExecutor EXCEPT !.site = ClickPages]

\* C16: for every known action, every parameter map (a required key
\* missing, a value of the wrong type or not coercible) and every driver
\* failure, the dispatch returns an envelope: nothing is raised into the
\* loop.
C16_DispatchNeverRaises ==
    (pc = "dispatched" /\ last_call.name \in ToolNames)
        => /\ ~last_call.raised
           /\ last_call.env # NoEnvelope

\* The error kinds of the taxonomy of failures.
Taxonomy ==
    {"ElementNotFound", "Timeout", "ClickError", "TypeError", "NavigationError",
     "ScreenshotError", "ScrollError", "PageSwitchError", "FrameError",
     "ModalError", "AnalysisError", "ExtractError", "CollectError",
     "DomAgentError", "UserCancelled"}

\* C17: every failed result (success false), of an action or of the gate,
\* carries an error_type of the taxonomy and a non-empty suggestion.
C17_FailuresCarryKindAndSuggestion ==
    (/\ pc = "dispatched"
     /\ ~last_call.raised
     /\ "success" \in last_call.env.keys
     /\ ~last_call.env.success)
        => /\ "error_type" \in last_call.env.keys
           /\ last_call.env.error_type \in Taxonomy
           /\ "suggestion" \in last_call.env.keys
           /\ last_call.env.suggestion

\* The keys of a result envelope.
EnvelopeKeys ==
    {"success", "action", "message", "error_type", "error", "suggestion", "data"}

\* C18: every tool invocation that returns (one of the 19 actions,
\* finish_task, a cancelled click, an unknown name) returns one result that
\* has all seven keys of the envelope, `action` naming the tool invoked.
C18_ResultsAreFullEnvelopes ==
    (pc = "dispatched" /\ ~last_call.raised)
        => /\ EnvelopeKeys \subseteq last_call.env.keys
           /\ last_call.env.action = last_call.name

(***************************************************************************)
(* Properties of the loop's termination by text and of its iterations.     *)
(***************************************************************************)
\* C19: a text ends the run only if it is, letter case apart, exactly one of
\* the affirmative phrases of finish_markers; a hedged sentence that holds
\* such a phrase does not end the run.
C19_OnlyExactPhraseEndsRun ==
    outcome = "finished_by_text"
        => \E i \in 1..Len(finish_markers) : Lower(summary.str) = finish_markers[i]

\* The loop goes to its next iteration, or is exhausted when there is none.
GoesOn ==
    IF iteration < cfg.max_iterations
    THEN pc' = "call" /\ iteration' = iteration + 1 /\ outcome' = "running"
    ELSE pc' = "done" /\ outcome' = "not_completed"

\* C20: at the end of the blocks of an iteration that did not end the run:
\* if a tool ran, one user turn holding the tool results of the iteration is
\* appended right after the assistant turn and the loop goes on; if no tool
\* ran and the stop reason is end_turn, the run stops there, the loop's
\* `else` ("not completed") not taken; if no tool ran and the stop reason
\* is another one, no turn is appended and the loop goes on.
C20_IterationEnds ==
    [][(pc = "blocks" /\ pos > Len(response.blocks))
        => LET n == Len(messages)
               n2 == Len(messages') IN
           IF tool_results # <<>>
           THEN /\ messages[n].role = "assistant"
                /\ n2 >= 2
                /\ messages'[n2] = ResultsTurn(tool_results)
                /\ messages'[n2].role = "user"
                /\ Len(messages'[n2].content) = Len(tool_results)
                /\ messages'[n2 - 1] = messages[n]
                /\ Cardinality({k \in 1..n2 :
                                  messages'[k] = ResultsTurn(tool_results)}) = 1
                /\ GoesOn
           ELSE IF response.stop_reason = "end_turn"
           THEN /\ pc' = "done"
                /\ outcome' = "end_turn"
                /\ messages' = messages
                /\ iteration' = iteration
           ELSE /\ messages[n].role = "assistant"
                /\ messages'[n2] = messages[n]
                /\ n2 <= n
                /\ GoesOn]_vars

\* The third iteration begins after one that ran no tool and stopped for
\* another reason than end_turn, and one that ran a tool.
C20_Witness ==
    /\ pc = "call"
    /\ iteration = 3
    /\ outcome = "running"
    /\ messages = <<TaskTurn(cfg.task),
                    AssistantTurn(<<"text">>, 1, TRUE),
                    AssistantTurn(<<"tool_use">>, 2, FALSE),
                    ResultsTurn(<<ToolResult(<<2, 1>>,
                                             Ok("validate_task_complete", ""))>>)>>

(***************************************************************************)
(* Properties of query_dom and of the page focus after a click.            *)
(***************************************************************************)
\* C21: when the completion-service call of the DOM sub-agent fails during
\* a query_dom invocation, query_dom returns a failed envelope, which is
\* queued as the tool result of the block, and the run goes on.
C21_DomAgentFailureIsSurfaced ==
    [][(DispatchesBlock /\ last_call'.name = "query_dom"
        /\ "dom_agent" \in last_call'.env.steps)
          => /\ ~last_call'.raised
             /\ "success" \in last_call'.env.keys
             /\ ~last_call'.env.success
             /\ tool_results' =
                   Append(tool_results,
                          ToolResult(<<iteration, pos>>, last_call'.env))
             /\ pc' = "blocks" /\ outcome' = "running"]_vars

\* C22: when click_element or click_text returns a successful envelope, the
\* active page is the newest page of the context, and the url of the
\* envelope is the url of that page.
C22_SuccessfulClickFocusesNewestPage ==
    (/\ pc = "dispatched"
     /\ last_call.name \in {"click_element", "click_text"}
     /\ ~last_call.raised
     /\ last_call.env.success)
        => /\ executor.page = executor.npages
           /\ last_call.env.url = executor.npages

\* A successful click_element, the context having a second page that is
\* now the active one.
C22_Witness ==
    /\ pc = "dispatched"
    /\ last_call.name = "click_element"
    /\ last_call.env.success
    /\ executor.npages = 2
    /\ executor.page = 2
    /\ last_call.env.url = 2

(***************************************************************************)
(* Properties of the distiller (analyze_page).                             *)
(***************************************************************************)
\* An analyze_page invocation has returned a successful envelope.
Distilled ==
    /\ pc = "dispatched"
    /\ last_call.name = "analyze_page"
    /\ ~last_call.raised
    /\ last_call.env.success

\* C23: right after a successful distillation the marker of every distilled
\* element is on the page (it finds the node the element was captured
\* from) and no two elements share an id; on every page, a page with a
\* dialog included.
C23_MarkersRelocateTheirNodes ==
    Distilled
        => /\ \A i \in 1..Len(executor.last_elements) :
                 executor.last_elements[i].id \in executor.live
           /\ \A i, j \in 1..Len(executor.last_elements) :
                 executor.last_elements[i].id = executor.last_elements[j].id
                    => i = j

(***************************************************************************)
(* Properties of the history manager: the summary turn and the window.     *)
(***************************************************************************)
\* A summary turn: an assistant turn whose only block is a text that is no
\* text of a response.
IsSummaryTurn(msg) ==
    /\ msg.role = "assistant"
    /\ msg.is_list
    /\ Len(msg.content) = 1
    /\ msg.content[1].type = "text"
    /\ msg.content[1].text.src # "response"

SummaryTurns(msgs) == {k \in 1..Len(msgs) : IsSummaryTurn(msgs[k])}

\* C24: the conversation has at most one summary turn; when there is one it
\* is the second turn and holds the stored summary; and an application that
\* summarizes has the summary turn of the application before among the
\* turns it summarizes: that turn is not kept after the new summary turn.
C24_OneSummaryTurn ==
    /\ [](outcome # "finished_by_text"
            => /\ SummaryTurns(messages) \subseteq {2}
               /\ (sum_calls > 0 /\ pc # "blocks") => SummaryTurns(messages) = {2}
               /\ SummaryTurns(messages) # {}
                    => messages[2] = SummaryBlock(summary))
    /\ [][(sum_calls' = sum_calls + 1 /\ SummaryTurns(messages) = {2})
            => /\ messages'[2] = SummaryBlock(summary')
               /\ \A k \in 3..Len(messages') : ~IsSummaryTurn(messages'[k])
               /\ Len(messages) - Window(cfg.history_window) >= 2]_vars

\* The second summarization has replaced the summary turn of the first.
C24_Witness ==
    /\ pc = "call"
    /\ sum_calls = 2
    /\ summary.src = "summarizer"
    /\ summary.ver = 2
    /\ SummaryTurns(messages) = {2}
    /\ messages[2] = SummaryBlock(summary)

\* The conversation handed to the history manager at the end of the blocks
\* of an iteration.
Handed ==
    IF tool_results # <<>>
    THEN Append(messages, ResultsTurn(tool_results)) ELSE messages

\* The end of the blocks of an iteration that applies the history manager.
AppliesWindow ==
    /\ pc = "blocks"
    /\ pos > Len(response.blocks)
    /\ tool_results # <<>> \/ response.stop_reason # "end_turn"

\* C25: with W the larger of 3 and history_window, an application
\* summarizes exactly when the turns after the first are more than W;
\* otherwise the conversation comes back unchanged, no summarization call
\* is made and the stored summary stays.  A window below 3 gives what a
\* window of 3 gives.
C25_SummarizesIffOverWindow ==
    [][AppliesWindow
        => LET W == IF cfg.history_window >= 3 THEN cfg.history_window ELSE 3 IN
           /\ (sum_calls' = sum_calls + 1) <=> (Len(Handed) - 1 > W)
           /\ (last_apply' = "windowed") <=> (Len(Handed) - 1 > W)
           /\ Len(Handed) - 1 <= W
                => /\ messages' = Handed
                   /\ summary' = summary
                   /\ sum_calls' = sum_calls
                   /\ last_sum' = "none"
           /\ Len(Handed) - 1 > W
                => /\ Len(messages') <= W + 2
                   /\ messages'[1] = messages[1]
           /\ cfg.history_window < 3
                => /\ messages' = _apply_history_window(Handed, 3, summary, last_sum',
                                                        sum_calls + 1).messages
                   /\ summary' = _apply_history_window(Handed, 3, summary, last_sum',
                                                       sum_calls + 1).summary]_vars

\* A window of 1 has summarized, keeping the task, the summary turn and
\* three turns.
C25_Witness ==
    /\ cfg.history_window = 1
    /\ last_apply = "windowed"
    /\ Len(messages) = 5
    /\ sum_calls = 1

(***************************************************************************)
(* Properties of the dispatch order within one response.                   *)
(***************************************************************************)
\* The positions of the tool_use blocks among the first `upto` blocks, in
\* order.
ToolUsePositions(blocks, upto) ==
    SelectSeq([p \in 1..upto |-> p], LAMBDA p : blocks[p] = "tool_use")

\* C26: the tool_use blocks of a response are dispatched one at a time in
\* the order of the response, each once; the results queued are one per
\* block dispatched, in that order, each with the id of its block; and the
\* user turn appended when the iteration goes on holds exactly these.
C26_ResultsInDispatchOrder ==
    /\ [](pc = "blocks"
            => LET ps == ToolUsePositions(response.blocks, pos - 1) IN
               /\ Len(tool_results) = Len(ps)
               /\ \A k \in 1..Len(ps) :
                     tool_results[k].tool_use_id = <<iteration, ps[k]>>)
    /\ [][(pc = "blocks" /\ pos <= Len(response.blocks)
           /\ response.blocks[pos] = "tool_use")
            => /\ last_call'.id = <<iteration, pos>>
               /\ pc' = "blocks"
                    => /\ pos' = pos + 1
                       /\ Len(tool_results') = Len(tool_results) + 1
                       /\ tool_results'[Len(tool_results')].tool_use_id
                             = <<iteration, pos>>
                       /\ tool_results'[Len(tool_results')].payload
                             = Payload(last_call'.name, last_call'.env)]_vars
    /\ [][(pc = "blocks" /\ pos > Len(response.blocks) /\ tool_results # <<>>)
            => LET turn == messages'[Len(messages')]
                   ps == ToolUsePositions(response.blocks, Len(response.blocks)) IN
               /\ turn.role = "user"
               /\ Len(turn.content) = Len(ps)
               /\ \A k \in 1..Len(ps) :
                     /\ turn.content[k].type = "tool_result"
                     /\ turn.content[k].id = <<iteration, ps[k]>>]_vars

\* The second iteration begins after a response with two tool_use blocks:
\* the user turn holds their two results in order.
C26_Witness ==
    /\ pc = "call"
    /\ iteration = 2
    /\ response.blocks = <<"tool_use", "tool_use">>
    /\ messages[Len(messages)].role = "user"
    /\ messages[Len(messages)].content
          = << Block("tool_result", <<1, 1>>, EmptyText),
               Block("tool_result", <<1, 2>>, EmptyText) >>

(***************************************************************************)
(* The bound on the fallbacks of click_element.                            *)
(***************************************************************************)
\* C27: every click_element invocation returns, having run at most one
\* re-distillation and attempted at most two driver clicks, whatever the
\* driver does.
C27_BoundedFallback ==
    (/\ pc = "dispatched"
     /\ last_call.name = "click_element"
     /\ last_call.executed
     /\ last_call.params.element_id.kind = "int")
        => /\ ~last_call.raised
           /\ last_call.env.distills <= 1
           /\ last_call.env.clicks <= 2

\* The longest way through click_element: the marker gone, one
\* re-distillation, a click on the fresh marker that timed out and a click
\* by text that failed.
C27_Witness ==
    /\ pc = "dispatched"
    /\ last_call.name = "click_element"
    /\ ~last_call.raised
    /\ ~last_call.env.success
    /\ last_call.env.distills = 1
    /\ last_call.env.clicks = 2
    /\ last_call.env.steps = {"redistill", "refreshed", "text"}

\* The page a distillation on its own scanned.
ThePage == CHOOSE dom \in executor.site : TRUE

\* The entries of allNodes that are visible nodes.
VisibleEntries(dom) ==
    SelectSeq(AllNodes(dom), LAMBDA i : dom[i].visible)

\* C28: after a successful distillation the last distilled set has N <= 200
\* elements; element k of the list has id k and was stamped with the marker
\* of sequence number k; the elements are the first N visible nodes the
\* scan met, in the order it met them, and no hidden node is among them.
C28_IdsAreSequentialAndCapped ==
    (Distilled /\ executor.site = {ThePage})
        => LET els == executor.last_elements
               st == executor.stamped
               vis == VisibleEntries(ThePage) IN
           /\ Len(els) <= 200
           /\ Len(st) = Len(els)
           /\ Len(els) = IF Len(vis) <= 200 THEN Len(vis) ELSE 200
           /\ \A k \in 1..Len(els) :
                 /\ els[k].id = k - 1
                 /\ st[k].agent = k - 1
                 /\ st[k].node = vis[k]
                 /\ ThePage[st[k].node].visible
                 /\ els[k].text = Strip(ThePage[st[k].node].text)

\* A page of more visible nodes than the cap, and a hidden one: 200
\* elements were kept.
C28_Witness ==
    /\ Distilled
    /\ Len(ThePage) = 202
    /\ ~ThePage[1].visible
    /\ Len(executor.last_elements) = 200
    /\ executor.last_elements[200].id = 199
    /\ executor.stamped[200].node = 201

\* C29: with a dialog on the page at distillation time, every distilled
\* element captured from a node inside a dialog has a lower id than every
\* distilled element captured from a node outside the dialogs.
C29_DialogElementsComeFirst ==
    (Distilled /\ executor.site = {ThePage})
        => \A j, k \in 1..Len(executor.last_elements) :
              (/\ ThePage[executor.stamped[j].node].in_dialog
               /\ ~ThePage[executor.stamped[k].node].in_dialog)
                 => executor.last_elements[j].id < executor.last_elements[k].id

\* The tools that run a distillation: analyze_page, and click_element (also
\* inside click_and_type), search_elements and query_dom, which call it.
DistillingTools ==
    {"analyze_page", "click_element", "click_and_type", "search_elements",
     "query_dom"}

\* C30: the last distilled set is replaced, never merged: after a
\* successful analyze_page it is exactly the elements of one scan of the
\* page; after a failed one (AnalysisError) it is what it was; a tool that
\* runs no distillation leaves it as it was, and whatever changes it puts
\* the elements of one scan in its place.
C30_DistilledSetIsReplaced ==
    [][(pc = "gate" /\ pc' = "dispatched")
        => LET scans == {Distill(dom) : dom \in executor.site} IN
           /\ (last_call'.name = "analyze_page" /\ ~last_call'.raised
               /\ last_call'.env.success)
                => \E d \in scans : /\ executor'.last_elements = d.elements
                                    /\ executor'.stamped = d.stamped
           /\ (last_call'.name = "analyze_page" /\ ~last_call'.raised
               /\ ~last_call'.env.success)
                => /\ last_call'.env.error_type = "AnalysisError"
                   /\ executor'.last_elements = executor.last_elements
           /\ last_call'.name \notin DistillingTools
                => executor'.last_elements = executor.last_elements
           /\ executor'.last_elements # executor.last_elements
                => \E d \in scans : executor'.last_elements = d.elements]_vars

\* A successful analyze_page of the page with the dialog: the three
\* elements of the scan are the last distilled set.
C30_Witness ==
    /\ Distilled
    /\ executor.last_elements = Distill(ModalPage).elements
    /\ Len(executor.last_elements) = 3

(***************************************************************************)
(* Properties of what is fed back and of what is clicked.                  *)
(***************************************************************************)
\* C31: no tool result queued for the conversation holds a base64 image;
\* the result of an action whose envelope holds one is that envelope with
\* the image taken out and nothing else changed, while the envelope handed
\* to the log still holds the image.
C31_ImageStrippedFromHistory ==
    /\ [](\A k \in 1..Len(tool_results) : ~tool_results[k].payload.b64)
    /\ [][(DispatchesBlock /\ pc' = "blocks")
            => LET fed == tool_results'[Len(tool_results')].payload IN
               /\ Len(tool_results') = Len(tool_results) + 1
               /\ fed = [last_call'.env EXCEPT !.b64 = FALSE]
               /\ last_call'.env.b64
                    <=> (/\ last_call'.name = "take_screenshot"
                         /\ last_call'.params.embed_b64
                         /\ last_call'.env.success)]_vars

\* A screenshot taken with embed_b64: the envelope logged holds the image,
\* the result queued does not.
C31_Witness ==
    /\ pc = "blocks"
    /\ last_call.name = "take_screenshot"
    /\ last_call.env.b64
    /\ tool_results # <<>>
    /\ tool_results[Len(tool_results)].tool_use_id = last_call.id
    /\ ~tool_results[Len(tool_results)].payload.b64
    /\ tool_results[Len(tool_results)].payload.success

\* The label of a distilled element, as the gate reads it.
ElementLabel(el) == Join(<< el.text, el.aria_label, el.placeholder, el.href >>)

\* C32: with confirmation mode on, an element that click_element clicks
\* without the operator's affirmation has no destructive keyword in its
\* text, aria-label, placeholder or link target.
C32_UnconfirmedClickIsHarmless ==
    (/\ pc = "dispatched"
     /\ cfg.confirm_actions
     /\ last_call.name = "click_element"
     /\ last_call.executed /\ ~last_call.raised
     /\ last_call.env.success
     /\ last_call.env.clicked # <<>>
     /\ ~(last_call.prompted /\ Affirmative(last_call.answer)))
        => ~LabelHasKeyword(ElementLabel(last_call.env.clicked[1]))

\* The element a click_element or type_text invocation acted on.
ActedOn(env) == IF env.action = "type_text" THEN env.typed ELSE env.clicked

\* What the model reads of an element in a listing.
AsListed(el) == << el.text, el.aria_label, el.placeholder, el.href >>

\* C33: click_element(id) and type_text(id) act on the element listed under
\* that id in the distillation most recently returned to the model.
C33_ActsOnTheElementTheModelHolds ==
    (/\ last_call.name \in {"click_element", "type_text"}
     /\ last_call.executed /\ ~last_call.raised
     /\ last_call.env.success
     /\ ActedOn(last_call.env) # <<>>)
        => LET held == SelectSeq(executor.shown,
                                 LAMBDA el : el.id = last_call.params.element_id.n) IN
           held # <<>> => AsListed(ActedOn(last_call.env)[1]) = AsListed(held[1])

\* C34: a successful click_and_type types into the element it clicked, also
\* when the click resolved through the refreshed-ID path; a click_and_type
\* whose click step failed typed nothing.
C34_TypesIntoTheClickedElement ==
    (/\ pc = "dispatched"
     /\ last_call.name = "click_and_type"
     /\ last_call.executed /\ ~last_call.raised)
        => /\ (last_call.env.success /\ last_call.env.clicked # <<>>)
                => last_call.env.typed = last_call.env.clicked
           /\ ~last_call.env.success => last_call.env.typed = <<>>

(***************************************************************************)
(* Properties of the conversation handed to the completion service.        *)
(***************************************************************************)
\* The number of blocks of a kind in a turn.
BlockCount(msg, type) ==
    IF msg.is_list
    THEN Cardinality({j \in 1..Len(msg.content) : msg.content[j].type = type})
    ELSE 0

\* C35: in every conversation passed to the completion service, every
\* assistant turn with a tool invocation is immediately followed by a user
\* turn holding the results of exactly its invocations, also after the
\* history manager has pruned the conversation.
C35_InvocationsKeepTheirResults ==
    pc = "call" =>
        \A i \in 1..Len(messages) :
            BlockIds(messages[i], "tool_use") # {} =>
                /\ messages[i].role = "assistant"
                /\ i < Len(messages)
                /\ messages[i + 1].role = "user"
                /\ BlockIds(messages[i + 1], "tool_result")
                     = BlockIds(messages[i], "tool_use")
                /\ BlockCount(messages[i + 1], "tool_result")
                     = BlockCount(messages[i], "tool_use")
                /\ BlockCount(messages[i + 1], "tool_use") = 0

\* A pruned conversation about to be passed on, whose window begins with a
\* turn of two invocations.
C35_Witness ==
    /\ pc = "call"
    /\ last_apply = "windowed"
    /\ Len(messages) >= 4
    /\ BlockCount(messages[3], "tool_use") = 2
    /\ BlockCount(messages[4], "tool_result") = 2

\* C36: within one distillation each node of the page is captured at most
\* once: no two elements of the distilled set come from the same node, the
\* descendants of dialogs included.
C36_EachNodeDistilledOnce ==
    Distilled
        => \A i, j \in 1..Len(executor.stamped) :
              executor.stamped[i].node = executor.stamped[j].node => i = j

\* C37: with W the larger of 3 and history_window, the conversation passed
\* to a main completion-service call has at most W + 4 turns, and the
\* conversation the history manager returns has at most W + 2 turns.
C37_ConversationIsBounded ==
    /\ pc = "call" => Len(messages) <= Window(cfg.history_window) + 4
    /\ last_apply \in {"unchanged", "windowed"}
          => Len(messages) <= Window(cfg.history_window) + 2

\* A pruned conversation of W + 2 turns about to be passed on.
C37_Witness ==
    /\ pc = "call"
    /\ last_apply = "windowed"
    /\ Len(messages) = Window(cfg.history_window) + 2
    /\ llm_calls >= 3

(***************************************************************************)
(* Termination of the run.                                                 *)
(***************************************************************************)
\* The parameter map has what the executor call of the tool reads with
\* params["..."] and int(...).
ParamsAccepted(name, params) ==
    CASE name = "click_element" -> IntOf(params.element_id)
      [] name = "click_text" -> params.text.kind = "str"
      [] name = "query_dom" -> params.required
      [] OTHER -> TRUE

\* The run was ended by an exception of a completion-service call or of a
\* browser action (a call that did not return).
CallDidNotReturn ==
    /\ pc = "done"
    /\ outcome = "crashed"
    /\ \/ ~last_call.raised
       \/ ParamsAccepted(last_call.name, last_call.params)

\* C38: provided every completion-service call and every browser action
\* returns (the operator's answer is part of the dispatch), the run
\* eventually ends as finished, finished by text, natural end of turn or
\* not completed.
C38_RunEndsInAnOutcome ==
    ([]~CallDidNotReturn)
        => <>(/\ pc = "done"
              /\ outcome \in {"finished", "finished_by_text", "end_turn",
                              "not_completed"})

(***************************************************************************)
(* The active page.                                                        *)
(***************************************************************************)
\* The tools that re-focus the session on the newest page.
FocusingTools ==
    {"analyze_page", "navigate_url", "click_element", "click_text", "go_back"}

\* C39: after a successful analyze_page, navigate_url, click_element,
\* click_text or go_back the active page is the last page of the context's
\* page list, whatever page a switch_to_page selected before.
C39_ActivePageIsTheNewest ==
    (/\ pc = "dispatched"
     /\ last_call.name \in FocusingTools
     /\ last_call.executed /\ ~last_call.raised
     /\ last_call.env.success)
        => executor.page = executor.npages

\* A successful navigate_url in a context of two pages, the first of which
\* a switch_to_page had selected: the second page is the active one.
C39_Witness ==
    /\ pc = "dispatched"
    /\ last_call.name = "navigate_url"
    /\ last_call.env.success
    /\ executor.npages = 2
    /\ executor.page = 2
    /\ executor.live = {}

====
